---------------------------- MODULE Spec2Model ----------------------------
(***************************************************************************)
(* Model of cloudflare-bulk-delete: the listing filter, the protection     *)
(* policy and the deletion loop of PagesClient / WorkersClient             *)
(* (src/src/lib/pages-client.js, src/src/lib/workers-client.js), the       *)
(* ProgressLogger (src/src/utils/logger.js) and the rate-limited request   *)
(* wrapper of CloudflareClient (src/unnamed/part_007).                     *)
(*                                                                         *)
(* Time is counted in whole days.  A deployment is a record                *)
(* [id, created_on, environment]; its id is its position in the remote     *)
(* list, so ids are distinct.  The wall-clock fields of a result           *)
(* (duration, rate) are not modelled.                                      *)
(***************************************************************************)
EXTENDS Integers, Sequences, FiniteSets, TLC

\* ------------------------------------------------------------ bounds
MaxLen == 3        \* longest remote deployment list
MaxTime == 3       \* created_on ranges over 1..MaxTime
MaxAge == 2        \* maxAge option ranges over 0..MaxAge (0: not given)
MaxKeep == 1       \* keepLatest option ranges over 0..MaxKeep
MaxResources == 2  \* most Pages projects / Workers scripts of the account
MaxFullPages == 51 \* most full pages a Worker script's listing holds
MaxBatches == 2    \* most batches of the first queue of a batch processor
MaxWorkers == 2    \* greatest maxConcurrency of a batch processor
ItemsPerBatch == 2 \* items of a batch (currentBatchSize)
NumCallers == 6    \* concurrent callers of get/delete/post on one client
TickMs == 100      \* the client's clock advances in steps of TickMs ms

\* ------------------------------------------------- program constants
RateLimitConcurrent == 5   \* config.cloudflare.rateLimit.concurrent
RateLimitDelay == 100      \* config.cloudflare.rateLimit.delay, in ms

Kinds == {"pages", "workers"}
Environments == {"production", "preview"}
Times == 1..MaxTime

VARIABLES
  kind,                \* which client is used: "pages" or "workers"
  api,                 \* how the remote API answers the listing GETs
  now,                 \* the current day (dayjs())
  remote,              \* the deployments the API returns for the resource
  removed,             \* ids of the deployments the API has deleted
  maxAge,              \* listAllDeployments option maxAge (0: falsy, no filter)
  options,             \* bulkDeleteDeployments options
  pc,                  \* position of the cleanup call
  deployments,         \* the argument of bulkDeleteDeployments
  deploymentsToDelete, \* the delete set
  skippedCount,
  idx,                 \* position of the for-of loop in deploymentsToDelete
  successCount,
  failedCount,
  call,                \* the DELETE transport call in flight, or NoCall
  deleteLog,           \* every DELETE transport call issued, in order
  progress,            \* the ProgressLogger of the run
  result,              \* the value bulkDeleteDeployments returned
  limiter,             \* the client's rateLimiter: activeCount and FIFO queue
  workersLimiter,      \* the rateLimiter of a ServiceManager's second client
  phase,               \* each caller's position inside makeRequest
  timer,               \* ms each caller has spent in this.delay (capped)
  sinceStart,          \* ms since the last transport call started (capped)
  invocations,         \* transport calls made for each caller's pending operation
  settled,             \* how the last operation to settle was delivered
  op,                  \* the ServiceManager / client operation called, its
                       \* arguments and the answers the API will give it
  spc,                 \* position of that operation
  waiting,             \* its transport calls in flight
  invoked,             \* the client methods it has invoked, in order
  transport,           \* every transport call it has issued, in order
  ret,                 \* the value it resolved with, or its error
  locals,              \* the local variables of its loop
  queues,              \* CloudflareBatchProcessor: this.state.queues
  counters,            \* its processedItems, succeededItems, failedItems
  settings,            \* its this.options
  activeWorkers,       \* processAllQueues: the worker promises pending
  main,                \* position of processAllQueues
  emitted              \* the batch events emitted so far

bulkVars == <<kind, api, now, remote, removed, maxAge, options, pc, deployments,
              deploymentsToDelete, skippedCount, idx, successCount,
              failedCount, call, deleteLog, progress, result>>
dispatchVars == <<limiter, workersLimiter, phase, timer, sinceStart,
                  invocations, settled>>
serviceVars == <<op, spc, waiting, invoked, transport, ret, locals>>
batchVars == <<queues, counters, settings, activeWorkers, main, emitted>>
vars == <<bulkVars, dispatchVars, serviceVars, batchVars>>

\* ------------------------------------------------------------ values
\* Answers of the API to a listing GET: success: true with the list,
\* success: false, or a rejected request (handleApiError throws).
Answers == {"ok", "unsuccessful", "throws"}
ApiUp == [deployments |-> "ok", versions |-> "ok"]
\* Pages has no versions endpoint: its answer is never read.
ApisOf(k) ==
  [deployments : Answers,
   versions : IF k = "pages" THEN {"ok"} ELSE Answers]
\* A DELETE transport call: the item, the path ("deployments" or "versions")
\* and, for a fallback call, the status the primary attempt was rejected with.
NoCall == [id |-> 0, path |-> "none", cause |-> 0]
LogEntry(c) == [id |-> c.id, path |-> c.path]
NoResult == [pending |-> TRUE]
NoSettlement == [status |-> 0, outcome |-> "none"]
NoProgress == [total |-> 0, current |-> 0, errors |-> <<>>]

Deployment(i, t, e) == [id |-> i, created_on |-> t, environment |-> e]

\* The environments a deployment of kind k can carry: Pages deployments are
\* preview or production; Workers records are all 'production'
\* (listScriptVersions: "environment: 'production'").
EnvironmentsOf(k) == IF k = "pages" THEN Environments ELSE {"production"}

\* All deployment lists of kind k and length n; the i-th item has id i.
ListsOfLen(k, n) ==
  { [i \in 1..n |-> Deployment(i, f[i][1], f[i][2])] :
      f \in [1..n -> Times \X EnvironmentsOf(k)] }

Lists(k) == UNION { ListsOfLen(k, n) : n \in 0..MaxLen }

PagesOptions ==
  [skipProduction : BOOLEAN, keepLatest : 0..MaxKeep,
   skipLatest : {TRUE}, dryRun : BOOLEAN]

WorkersOptions ==
  [skipProduction : {TRUE}, keepLatest : {1},
   skipLatest : BOOLEAN, dryRun : BOOLEAN]

\* --------------------------------------------------- pure functions
\* Insert d into a newest-first list after every item that is not older
\* than d: the comparator b.created_on - a.created_on of a stable sort.
RECURSIVE InsertNewestFirst(_, _)
InsertNewestFirst(sorted, d) ==
  IF sorted = <<>> THEN <<d>>
  ELSE IF Head(sorted).created_on >= d.created_on
       THEN <<Head(sorted)>> \o InsertNewestFirst(Tail(sorted), d)
       ELSE <<d>> \o sorted

RECURSIVE SortFrom(_, _, _)
SortFrom(s, i, acc) ==
  IF i > Len(s) THEN acc
  ELSE SortFrom(s, i + 1, InsertNewestFirst(acc, s[i]))

\* mutant: the copy is never sorted
SortNewestFirst_Unsorted(s) == s

\* [...deployments].sort((a, b) => new Date(b.created_on) - new Date(a.created_on))
SortNewestFirst(s) == SortFrom(s, 1, <<>>)

\* dayjs(deployment.created_on).isAfter(cutoffDate)
IsAfterCutoff(d, age, today) == d.created_on > today - age

\* filteredDeployments.filter(deployment => dayjs(...).isAfter(cutoffDate)),
\* from position i on
RECURSIVE FilterAfterCutoff(_, _, _, _)
FilterAfterCutoff(all, age, today, i) ==
  IF i > Len(all) THEN <<>>
  ELSE IF IsAfterCutoff(all[i], age, today)
       THEN <<all[i]>> \o FilterAfterCutoff(all, age, today, i + 1)
       ELSE FilterAfterCutoff(all, age, today, i + 1)

\* listAllDeployments: "if (maxAge) { cutoffDate = ...; filteredDeployments = ... }"
AgeFilter(all, age, today) ==
  IF age # 0 THEN FilterAfterCutoff(all, age, today, 1) ELSE all

\* mutant: one item fewer is protected
IsLatestProtected_OneFewer(index, keepLatest) == index < keepLatest

\* Pages: "if (index < keepLatest) { skippedCount++; return false }"
\* (index is 0-based in the code and 1-based here)
IsLatestProtected(index, keepLatest) == index <= keepLatest

\* mutant: the comparison uses a literal no deployment carries
IsProduction_WrongLiteral(d) == d.environment = "prod"

\* Pages: "const isProduction = deployment.environment === 'production'"
IsProduction(d) == d.environment = "production"

\* Pages: one pass of sortedDeployments.filter((deployment, index) => ...)
\* with its skippedCount++ side effect, from position i on (1-based).
RECURSIVE PagesFilter(_, _, _)
PagesFilter(sorted, o, i) ==
  IF i > Len(sorted) THEN [toDelete |-> <<>>, skipped |-> 0]
  ELSE LET rest == PagesFilter(sorted, o, i + 1)
           skip == IF o.keepLatest > 0
                   THEN IsLatestProtected(i, o.keepLatest)
                   ELSE IsProduction(sorted[i])
       IN  IF skip
           THEN [toDelete |-> rest.toDelete, skipped |-> rest.skipped + 1]
           ELSE [toDelete |-> <<sorted[i]>> \o rest.toDelete,
                 skipped |-> rest.skipped]

\* mutant: the filter leaves items out without counting them
PagesPolicy_SkipUncounted(deps, o) ==
  LET sorted == SortNewestFirst(deps)
  IN  IF o.skipProduction
      THEN [toDelete |-> PagesFilter(sorted, o, 1).toDelete, skipped |-> 0]
      ELSE [toDelete |-> sorted, skipped |-> 0]

\* Pages: the protection policy of bulkDeleteDeployments
PagesPolicy(deps, o) ==
  LET sorted == SortNewestFirst(deps)
  IN  IF o.skipProduction
      THEN PagesFilter(sorted, o, 1)
      ELSE [toDelete |-> sorted, skipped |-> 0]

\* mutant: the last item of the sorted copy is the one left out
WorkersPolicy_SkipsOldest(deps, o) ==
  IF o.skipLatest /\ Len(deps) > 0
  THEN [toDelete |-> SubSeq(SortNewestFirst(deps), 1, Len(deps) - 1),
        skipped |-> 1]
  ELSE [toDelete |-> deps, skipped |-> 0]

\* Workers: "sorted.slice(1)" and "skippedCount = 1" when skipLatest
WorkersPolicy(deps, o) ==
  IF o.skipLatest /\ Len(deps) > 0
  THEN [toDelete |-> Tail(SortNewestFirst(deps)), skipped |-> 1]
  ELSE [toDelete |-> deps, skipped |-> 0]

Policy(k, deps, o) ==
  IF k = "pages" THEN PagesPolicy(deps, o) ELSE WorkersPolicy(deps, o)

\* mutant: the dry-run return is missing
IsDryRun_Never(o) == FALSE

\* "if (dryRun)"
IsDryRun(o) == o.dryRun

\* ------------------------------------------------------ return values
\* "return { success: 0, failed: 0, skipped: 0 }"
EmptyResult == [success |-> 0, failed |-> 0, skipped |-> 0]

\* "return { success: 0, failed: 0, skipped: skippedCount, dryRun: true }"
DryRunResult(sk) == [success |-> 0, failed |-> 0, skipped |-> sk, dryRun |-> TRUE]

\* "return { success: 0, failed: 0, skipped: skippedCount }"
NothingLeftResult(sk) == [success |-> 0, failed |-> 0, skipped |-> sk]

\* mutant: total counts the attempted items only
FinalResult_TotalAttempted(s, f, sk, deps) ==
  [success |-> s, failed |-> f, skipped |-> sk, total |-> s + f]

\* "return { success, failed, skipped, total: deployments.length, ... }"
FinalResult(s, f, sk, deps) ==
  [success |-> s, failed |-> f, skipped |-> sk, total |-> Len(deps)]

\* ------------------------------------------------------------- Init
\* No ServiceManager operation is running.
NoOperation == [name |-> "none"]
NoReturn == [pending |-> TRUE]
NoLocals == [none |-> TRUE]
InitService ==
  /\ op = NoOperation
  /\ spc = "idle"
  /\ waiting = {}
  /\ invoked = <<>>
  /\ transport = <<>>
  /\ ret = NoReturn
  /\ locals = NoLocals

\* No CloudflareBatchProcessor has been constructed.
NoBatchProcessor ==
  /\ queues = <<>>
  /\ counters = [processedItems |-> 0, succeededItems |-> 0, failedItems |-> 0]
  /\ settings = [maxConcurrency |-> 3]
  /\ activeWorkers = {}
  /\ main = "none"
  /\ emitted = {}

InitDispatch ==
  /\ limiter = [activeCount |-> 0, queue |-> <<>>]
  /\ workersLimiter = [activeCount |-> 0, queue |-> <<>>]
  /\ phase = [c \in 1..NumCallers |-> "idle"]
  /\ timer = [c \in 1..NumCallers |-> 0]
  /\ sinceStart = RateLimitDelay
  /\ invocations = [c \in 1..NumCallers |-> 0]
  /\ settled = NoSettlement

InitBulk ==
  /\ pc = "start"
  /\ removed = {}
  /\ deployments = <<>>
  /\ deploymentsToDelete = <<>>
  /\ skippedCount = 0
  /\ idx = 1
  /\ successCount = 0
  /\ failedCount = 0
  /\ call = NoCall
  /\ deleteLog = <<>>
  /\ progress = NoProgress
  /\ result = NoResult

\* A call of bulkDeleteDeployments on an arbitrary deployment list.
Init ==
  /\ kind \in Kinds
  /\ api = ApiUp
  /\ now = MaxTime
  /\ remote \in Lists(kind)
  /\ maxAge = 0
  /\ options \in (IF kind = "pages" THEN PagesOptions ELSE WorkersOptions)
  /\ InitBulk
  /\ InitDispatch
  /\ NoBatchProcessor
  /\ InitService

\* A cleanup: listAllDeployments with a maxAge, then bulkDeleteDeployments
\* on what it returned (cli.js delete command, cleanupOldDeployments).
InitCleanup ==
  /\ kind \in Kinds
  /\ api = ApiUp
  /\ now = MaxTime
  /\ remote \in Lists(kind)
  /\ maxAge \in 1..MaxAge
  /\ options \in (IF kind = "pages" THEN PagesOptions ELSE WorkersOptions)
  /\ InitBulk
  /\ InitDispatch
  /\ NoBatchProcessor
  /\ InitService

\* A listing with any answers of the API, then bulkDeleteDeployments with
\* the clients' default options on what was listed.
InitListing ==
  /\ kind \in Kinds
  /\ api \in ApisOf(kind)
  /\ now = MaxTime
  /\ remote \in Lists(kind)
  /\ maxAge = 0
  /\ options = [skipProduction |-> TRUE, keepLatest |-> 1,
                skipLatest |-> TRUE, dryRun |-> FALSE]
  /\ InitBulk
  /\ InitDispatch
  /\ NoBatchProcessor
  /\ InitService

\* ---------------------------------------------------------- actions
\* What the listing of a resource fetches.  Pages: one GET of the
\* deployments; "if (response.success && response.result)" takes the result,
\* else a warning is logged and the list stays empty; a rejected GET
\* rejects the listing.  Workers: listDeployments throws on success: false
\* and its catch falls back to listScriptVersions, which throws on
\* success: false; a rejected versions GET rejects the listing.
Fetched(k, a, all) ==
  IF k = "pages"
  THEN CASE a.deployments = "ok" -> [rejected |-> FALSE, list |-> all]
         [] a.deployments = "unsuccessful" -> [rejected |-> FALSE, list |-> <<>>]
         [] OTHER -> [rejected |-> TRUE, list |-> <<>>]
  ELSE IF a.deployments = "ok" \/ a.versions = "ok"
       THEN [rejected |-> FALSE, list |-> all]
       ELSE [rejected |-> TRUE, list |-> <<>>]

\* listAllDeployments(name, {maxAge}): fetch, then the age filter; a
\* rejection is rethrown by listAllDeployments and by
\* ServiceManager.listDeployments
ListAllDeployments ==
  /\ pc = "start"
  /\ LET fetched == Fetched(kind, api, remote)
     IN  IF fetched.rejected
         THEN /\ pc' = "rejected"
              /\ UNCHANGED deployments
         ELSE /\ deployments' = AgeFilter(fetched.list, maxAge, now)
              /\ pc' = "listed"
  /\ UNCHANGED <<kind, api, now, remote, removed, maxAge, options, deploymentsToDelete,
                 skippedCount, idx, successCount, failedCount, call,
                 deleteLog, progress, result, dispatchVars, serviceVars, batchVars>>

\* bulkDeleteDeployments up to its first await: the protection filter and
\* the three early returns
BulkDeleteDeployments ==
  /\ pc = "listed"
  /\ LET decision == Policy(kind, deployments, options)
         toDelete == decision.toDelete
         skipped == decision.skipped
     IN  IF Len(deployments) = 0
         THEN /\ result' = EmptyResult
              /\ pc' = "done"
              /\ UNCHANGED <<deploymentsToDelete, skippedCount, progress>>
         ELSE /\ deploymentsToDelete' = toDelete
              /\ skippedCount' = skipped
              /\ IF IsDryRun(options)
                 THEN /\ result' = DryRunResult(skipped)
                      /\ pc' = "done"
                      /\ UNCHANGED progress
                 ELSE IF kind = "pages" /\ Len(toDelete) = 0
                 THEN /\ result' = NothingLeftResult(skipped)
                      /\ pc' = "done"
                      /\ UNCHANGED progress
                 ELSE /\ progress' = [total |-> Len(toDelete), current |-> 0,
                                      errors |-> <<>>]
                      /\ pc' = "loop"
                      /\ UNCHANGED result
  /\ UNCHANGED <<kind, api, now, remote, removed, maxAge, options, deployments, idx,
                 successCount, failedCount, call, deleteLog, dispatchVars, serviceVars, batchVars>>

\* mutant: the next delete is issued without awaiting the one in flight
IssueDelete_NoAwait ==
  /\ pc = "loop"
  /\ idx <= Len(deploymentsToDelete)
  /\ call' = [id |-> deploymentsToDelete[idx].id, path |-> "deployments",
              cause |-> 0]
  /\ deleteLog' = Append(deleteLog, LogEntry(call'))
  /\ UNCHANGED <<kind, api, now, remote, removed, maxAge, options, pc, deployments,
                 deploymentsToDelete, skippedCount, idx, successCount,
                 failedCount, progress, result, dispatchVars, serviceVars, batchVars>>

\* for (const deployment of deploymentsToDelete): deleteDeployment issues
\* the DELETE of the next item on its primary path
IssueDelete ==
  /\ pc = "loop"
  /\ call = NoCall
  /\ idx <= Len(deploymentsToDelete)
  /\ call' = [id |-> deploymentsToDelete[idx].id, path |-> "deployments",
              cause |-> 0]
  /\ deleteLog' = Append(deleteLog, LogEntry(call'))
  /\ UNCHANGED <<kind, api, now, remote, removed, maxAge, options, pc, deployments,
                 deploymentsToDelete, skippedCount, idx, successCount,
                 failedCount, progress, result, dispatchVars, serviceVars, batchVars>>

\* mutant: an entry is pushed for every item, failed or not
Increment_AlwaysPushes(p, item, error) ==
  [p EXCEPT !.current = @ + 1,
            !.errors = Append(@, [item |-> item, error |-> error])]

\* ProgressLogger.increment(item, error)
Increment(p, item, error) ==
  [p EXCEPT !.current = @ + 1,
            !.errors = IF error = "" THEN @
                       ELSE Append(@, [item |-> item, error |-> error])]

\* catch (error) { failedCount++; progressLogger.increment(id, error) }
ItemFailed(message) ==
  /\ failedCount' = failedCount + 1
  /\ progress' = Increment(progress, call.id, message)
  /\ idx' = idx + 1
  /\ call' = NoCall
  /\ UNCHANGED <<successCount, deleteLog>>

\* the DELETE answers success: true: successCount++, increment(id)
DeleteSucceeds ==
  /\ pc = "loop"
  /\ call # NoCall
  /\ successCount' = successCount + 1
  /\ progress' = Increment(progress, call.id, "")
  /\ removed' = removed \cup {call.id}
  /\ idx' = idx + 1
  /\ call' = NoCall
  /\ UNCHANGED <<kind, api, now, remote, maxAge, options, pc, deployments,
                 deploymentsToDelete, skippedCount, failedCount, deleteLog,
                 result, dispatchVars, serviceVars, batchVars>>

\* the DELETE answers success: false: deleteDeployment throws
\* "Failed to delete deployment <id>"
DeleteUnsuccessful ==
  /\ pc = "loop"
  /\ call # NoCall
  /\ ItemFailed("Failed to delete deployment")
  /\ UNCHANGED <<kind, api, now, remote, removed, maxAge, options, pc, deployments,
                 deploymentsToDelete, skippedCount, result, dispatchVars, serviceVars, batchVars>>

\* HTTP statuses a DELETE can be rejected with (handleApiError's cases):
\* unauthorized, not found, rate limit exceeded, server error
DeleteFailures == {401, 404, 429, 500}

\* the DELETE rejects with some status (handleApiError).  Workers, primary
\* path: "catch (error)" falls back to the versions path, whatever the
\* error; otherwise the item has failed.
DeleteThrows ==
  /\ pc = "loop"
  /\ call # NoCall
  /\ IF kind = "workers" /\ call.path = "deployments"
     THEN /\ \E status \in DeleteFailures :
               call' = [id |-> call.id, path |-> "versions", cause |-> status]
          /\ deleteLog' = Append(deleteLog, LogEntry(call'))
          /\ UNCHANGED <<idx, successCount, failedCount, progress>>
     ELSE ItemFailed("An error occurred while accessing Cloudflare API")
  /\ UNCHANGED <<kind, api, now, remote, removed, maxAge, options, pc, deployments,
                 deploymentsToDelete, skippedCount, result, dispatchVars, serviceVars, batchVars>>

\* progressLogger.complete() and the final return
Complete ==
  /\ pc = "loop"
  /\ call = NoCall
  /\ idx > Len(deploymentsToDelete)
  /\ result' = FinalResult(successCount, failedCount, skippedCount, deployments)
  /\ pc' = "done"
  /\ UNCHANGED <<kind, api, now, remote, removed, maxAge, options, deployments,
                 deploymentsToDelete, skippedCount, idx, successCount,
                 failedCount, call, deleteLog, progress, dispatchVars, serviceVars, batchVars>>

Next ==
  \/ ListAllDeployments
  \/ BulkDeleteDeployments
  \/ IssueDelete
  \/ DeleteSucceeds
  \/ DeleteUnsuccessful
  \/ DeleteThrows
  \/ Complete

Spec == Init /\ [][Next]_vars

SpecCleanup == InitCleanup /\ [][Next]_vars

\* Scenario A: a Pages project holding previews aged 1, 10 and 40 days and a
\* production deployment aged 5 days (in any order), listed with maxAge = 7
\* and bulk-deleted with skipProduction = true, keepLatest = 1.
ScenarioAItems ==
  { <<1, "preview">>, <<10, "preview">>, <<40, "preview">>, <<5, "production">> }

InitScenarioA ==
  /\ kind = "pages"
  /\ api = ApiUp
  /\ now = 41
  /\ remote \in
       { [i \in 1..4 |-> Deployment(i, now - f[i][1], f[i][2])] :
           f \in { g \in [1..4 -> ScenarioAItems] :
                     \A i, j \in 1..4 : i # j => g[i] # g[j] } }
  /\ maxAge = 7
  /\ options = [skipProduction |-> TRUE, keepLatest |-> 1,
                skipLatest |-> TRUE, dryRun |-> FALSE]
  /\ InitBulk
  /\ InitDispatch
  /\ NoBatchProcessor
  /\ InitService

SpecScenarioA == InitScenarioA /\ [][Next]_vars

\* A call of PagesClient.bulkDeleteDeployments with skipProduction = true and
\* any keepLatest up to one more than the longest list.
InitKeepLatest ==
  /\ kind = "pages"
  /\ api = ApiUp
  /\ now = MaxTime
  /\ remote \in Lists(kind)
  /\ maxAge = 0
  /\ options \in [skipProduction : {TRUE}, keepLatest : 0..(MaxLen + 1),
                  skipLatest : {TRUE}, dryRun : BOOLEAN]
  /\ InitBulk
  /\ InitDispatch
  /\ NoBatchProcessor
  /\ InitService

SpecKeepLatest == InitKeepLatest /\ [][Next]_vars

\* A call of PagesClient.bulkDeleteDeployments with a negative keepLatest.
InitMalformed ==
  /\ kind = "pages"
  /\ api = ApiUp
  /\ now = MaxTime
  /\ remote \in Lists(kind)
  /\ maxAge = 0
  /\ options \in [skipProduction : BOOLEAN, keepLatest : (0 - MaxKeep)..(0 - 1),
                  skipLatest : {TRUE}, dryRun : BOOLEAN]
  /\ InitBulk
  /\ InitDispatch
  /\ NoBatchProcessor
  /\ InitService

SpecMalformed == InitMalformed /\ [][Next]_vars

\* A non-dry call of bulkDeleteDeployments of either kind with every
\* protection switched off: the whole input is the delete set.
InitUnprotected ==
  /\ kind \in Kinds
  /\ api = ApiUp
  /\ now = MaxTime
  /\ remote \in Lists(kind)
  /\ maxAge = 0
  /\ options = IF kind = "pages"
               THEN [skipProduction |-> FALSE, keepLatest |-> 0,
                     skipLatest |-> TRUE, dryRun |-> FALSE]
               ELSE [skipProduction |-> TRUE, keepLatest |-> 1,
                     skipLatest |-> FALSE, dryRun |-> FALSE]
  /\ InitBulk
  /\ InitDispatch
  /\ NoBatchProcessor
  /\ InitService

SpecUnprotected == InitUnprotected /\ [][Next]_vars

\* Scenario B: a Worker script holding the five versions v1 .. v5, created
\* on days 1 .. 5, listed in any order and bulk-deleted with
\* skipLatest = true.
ScenarioBVersions == 1..5

\* A call of WorkersClient.bulkDeleteDeployments: on an arbitrary list, or
\* on the versions of scenario B.
InitWorkers ==
  /\ kind = "workers"
  /\ api = ApiUp
  /\ maxAge = 0
  /\ \/ /\ now = MaxTime
        /\ remote \in Lists(kind)
        /\ options \in WorkersOptions
     \/ /\ now = 5
        /\ remote \in
             { [i \in ScenarioBVersions |-> Deployment(i, f[i], "production")] :
                 f \in { g \in [ScenarioBVersions -> ScenarioBVersions] :
                           \A i, j \in ScenarioBVersions : i # j => g[i] # g[j] } }
        /\ options = [skipProduction |-> TRUE, keepLatest |-> 1,
                      skipLatest |-> TRUE, dryRun |-> FALSE]
  /\ InitBulk
  /\ InitDispatch
  /\ NoBatchProcessor
  /\ InitService

SpecWorkers == InitWorkers /\ [][Next]_vars

SpecListing == InitListing /\ [][Next]_vars

\* ---------------------------------------------------- cleanupByCount
\* A call of CloudflareBulkDelete.cleanupByCount({keepCount, dryRun,
\* skipProduction}), followed on one of the account's resources
CleanupByCountCalls ==
  [name : {"cleanupByCount"}, keepCount : 0..(MaxKeep + 1),
   dryRun : BOOLEAN, skipProduction : BOOLEAN]

\* The options object cleanupByCount hands to bulkDeleteDeployments, read
\* through the client's defaults: Pages gets {dryRun, skipProduction} and
\* keepLatest = 1 by default, Workers gets {dryRun, skipLatest: true}
CountOptions(k, o) ==
  IF k = "pages"
  THEN [skipProduction |-> o.skipProduction, keepLatest |-> 1,
        skipLatest |-> TRUE, dryRun |-> o.dryRun]
  ELSE [skipProduction |-> TRUE, keepLatest |-> 1,
        skipLatest |-> TRUE, dryRun |-> o.dryRun]

\* "sortedDeployments.slice(keepCount)"
SliceFrom(sorted, keepCount) == SubSeq(sorted, keepCount + 1, Len(sorted))

InitCount ==
  /\ kind \in Kinds
  /\ api = ApiUp
  /\ now = MaxTime
  /\ remote \in Lists(kind)
  /\ maxAge = 0
  /\ op \in CleanupByCountCalls
  /\ kind = "workers" => op.skipProduction
  /\ options = CountOptions(kind, [dryRun |-> FALSE, skipProduction |-> TRUE])
  /\ spc = "idle"
  /\ waiting = {}
  /\ invoked = <<>>
  /\ transport = <<>>
  /\ ret = NoReturn
  /\ locals = NoLocals
  /\ InitBulk
  /\ InitDispatch
  /\ NoBatchProcessor

\* One turn of the loop over the resources: list the resource's deployments,
\* "continue" when there are no more than keepCount, else sort newest first,
\* slice and call bulkDeleteDeployments; an error is caught per resource
CleanupByCount ==
  /\ op.name = "cleanupByCount"
  /\ pc = "start"
  /\ LET fetched == Fetched(kind, api, remote)
         allDeployments == fetched.list
     IN  IF fetched.rejected
         THEN /\ pc' = "rejected"
              /\ UNCHANGED <<deployments, options>>
         ELSE IF Len(allDeployments) <= op.keepCount
         THEN /\ pc' = "done"
              /\ UNCHANGED <<deployments, options>>
         ELSE /\ deployments' =
                   SliceFrom(SortNewestFirst(allDeployments), op.keepCount)
              /\ options' = CountOptions(kind, op)
              /\ pc' = "listed"
  /\ UNCHANGED <<kind, api, now, remote, removed, maxAge, deploymentsToDelete,
                 skippedCount, idx, successCount, failedCount, call,
                 deleteLog, progress, result, dispatchVars, serviceVars, batchVars>>

NextCount ==
  \/ CleanupByCount
  \/ BulkDeleteDeployments
  \/ IssueDelete
  \/ DeleteSucceeds
  \/ DeleteUnsuccessful
  \/ DeleteThrows
  \/ Complete

SpecCount == InitCount /\ [][NextCount]_vars

\* ------------------------------------------------- CLI delete command
\* A run of "delete <type> <name>" with or without --yes and --dry-run, and
\* the answer the user gives if the confirmation prompt is shown
DeleteCommands ==
  { c \in [name : {"cli delete"}, yes : BOOLEAN, dryRun : BOOLEAN,
           confirm : BOOLEAN] :
      (c.yes \/ c.dryRun) => ~c.confirm }

\* "const deleteOptions = { dryRun: isDryRun, skipProduction:
\* options.skipProduction !== false && type === 'pages', skipLatest:
\* options.skipLatest !== false && type === 'workers', ... }" with neither
\* flag negated, read through the client's defaults
DeleteOptions(k, o) ==
  [skipProduction |-> k = "pages", keepLatest |-> 1,
   skipLatest |-> k = "workers", dryRun |-> o.dryRun]

\* mutant: the prompt is never shown
NeedsConfirmation_Never(o) == FALSE

\* "if (!options.yes && !isDryRun)"
NeedsConfirmation(o) == ~o.yes /\ ~o.dryRun

InitCli ==
  /\ kind \in Kinds
  /\ api = ApiUp
  /\ now = MaxTime
  /\ remote \in Lists(kind)
  /\ maxAge = 0
  /\ op \in DeleteCommands
  /\ options = DeleteOptions(kind, [dryRun |-> FALSE])
  /\ spc = "start"
  /\ waiting = {}
  /\ invoked = <<>>
  /\ transport = <<>>
  /\ ret = NoReturn
  /\ locals = NoLocals
  /\ InitBulk
  /\ InitDispatch
  /\ NoBatchProcessor

\* the action up to its second await: the deployments are listed and
\* previewed; none: return; else the prompt is shown, or
\* bulkDeleteDeployments is called at once
DeleteCommand ==
  /\ op.name = "cli delete"
  /\ spc = "start"
  /\ LET fetched == Fetched(kind, api, remote)
     IN  IF fetched.rejected
         THEN /\ pc' = "rejected"
              /\ spc' = "failed"
              /\ UNCHANGED <<deployments, options>>
         ELSE IF Len(fetched.list) = 0
         THEN /\ pc' = "returned"
              /\ spc' = "nothing found"
              /\ UNCHANGED <<deployments, options>>
         ELSE /\ deployments' = AgeFilter(fetched.list, maxAge, now)
              /\ IF NeedsConfirmation(op)
                 THEN /\ pc' = "prompt"
                      /\ spc' = "prompt"
                      /\ UNCHANGED options
                 ELSE /\ pc' = "listed"
                      /\ spc' = "deleting"
                      /\ options' = DeleteOptions(kind, op)
  /\ UNCHANGED <<kind, api, now, remote, removed, maxAge, deploymentsToDelete,
                 skippedCount, idx, successCount, failedCount, call,
                 deleteLog, progress, result, dispatchVars,
                 op, waiting, invoked, transport, ret, locals, batchVars>>

\* the user answers the prompt: "if (!answer.confirm) { ...; return; }",
\* else bulkDeleteDeployments is called
Answered ==
  /\ op.name = "cli delete"
  /\ spc = "prompt"
  /\ IF op.confirm
     THEN /\ pc' = "listed"
          /\ spc' = "deleting"
          /\ options' = DeleteOptions(kind, op)
     ELSE /\ pc' = "returned"
          /\ spc' = "cancelled"
          /\ UNCHANGED options
  /\ UNCHANGED <<kind, api, now, remote, removed, maxAge, deployments,
                 deploymentsToDelete, skippedCount, idx, successCount,
                 failedCount, call, deleteLog, progress, result,
                 dispatchVars, op, waiting, invoked, transport, ret, locals,
                 batchVars>>

NextCli ==
  \/ DeleteCommand
  \/ Answered
  \/ BulkDeleteDeployments
  \/ IssueDelete
  \/ DeleteSucceeds
  \/ DeleteUnsuccessful
  \/ DeleteThrows
  \/ Complete

SpecCli == InitCli /\ [][NextCli]_vars

\* ------------------------------------------------------ dispatcher
\* makeRequest(requestFn) = this.rateLimiter(async () => { await delay; return
\* requestFn() }) with rateLimiter = pLimit(config.cloudflare.rateLimit.concurrent).
\* A caller is "idle", "queued" (in the limiter's queue), "delay" (holds a
\* slot, inside this.delay), or "transport" (holds a slot, inside requestFn).
Callers == 1..NumCallers

InFlight == { c \in Callers : phase[c] = "transport" }

\* HTTP statuses a transport call can end with: success, rate limit
\* exceeded, server error
Statuses == {200, 429, 500}

\* axios resolves a 2xx answer; the response interceptor turns every other
\* answer into an Error (handleApiError) and rejects
Outcome(status) == IF status = 200 THEN "resolved" ELSE "rejected"

Min(a, b) == IF a < b THEN a ELSE b

\* get / delete / post: makeRequest hands the operation to the limiter,
\* which queues it
Submit(c) ==
  /\ phase[c] = "idle"
  /\ limiter' = [limiter EXCEPT !.queue = Append(@, c)]
  /\ phase' = [phase EXCEPT ![c] = "queued"]
  /\ UNCHANGED <<timer, sinceStart, invocations, settled, workersLimiter,
               bulkVars, serviceVars, batchVars>>

\* mutant: off by one in the admission test
SlotFree_OffByOne(l) == l.activeCount <= RateLimitConcurrent

\* the limiter's admission test
SlotFree(l) == l.activeCount < RateLimitConcurrent

\* the limiter starts the head of its queue when a slot is free:
\* activeCount++, and the operation begins "await this.delay(...)"
Acquire ==
  /\ limiter.queue # <<>>
  /\ SlotFree(limiter)
  /\ limiter' = [activeCount |-> limiter.activeCount + 1,
                 queue |-> Tail(limiter.queue)]
  /\ phase' = [phase EXCEPT ![Head(limiter.queue)] = "delay"]
  /\ timer' = [timer EXCEPT ![Head(limiter.queue)] = 0]
  /\ UNCHANGED <<sinceStart, invocations, settled, workersLimiter,
               bulkVars, serviceVars, batchVars>>

\* TickMs ms pass: the pending setTimeout of every operation inside
\* this.delay and the time since the last transport call started advance
Tick ==
  /\ timer' = [c \in Callers |->
                 IF phase[c] = "delay"
                 THEN Min(timer[c] + TickMs, RateLimitDelay)
                 ELSE timer[c]]
  /\ sinceStart' = Min(sinceStart + TickMs, RateLimitDelay)
  /\ UNCHANGED <<limiter, phase, invocations, settled, workersLimiter,
               bulkVars, serviceVars, batchVars>>

\* mutant: the timeout fires at once
DelayExpired_AtOnce(t) == TRUE

\* delay(ms): "new Promise(resolve => setTimeout(resolve, ms))" resolves no
\* earlier than ms after it was started
DelayExpired(t) == t >= RateLimitDelay

\* the delay has elapsed: "return requestFn()" starts the transport call
DelayElapsed(c) ==
  /\ phase[c] = "delay"
  /\ DelayExpired(timer[c])
  /\ phase' = [phase EXCEPT ![c] = "transport"]
  /\ invocations' = [invocations EXCEPT ![c] = @ + 1]
  /\ sinceStart' = 0
  /\ UNCHANGED <<limiter, timer, settled, workersLimiter,
               bulkVars, serviceVars, batchVars>>

\* mutant: a rate-limited or failed call is made once more
Settle_Retries(c) ==
  /\ phase[c] = "transport"
  /\ \E status \in Statuses :
       IF Outcome(status) = "rejected" /\ invocations[c] < 2
       THEN /\ invocations' = [invocations EXCEPT ![c] = @ + 1]
            /\ UNCHANGED <<limiter, phase, timer, settled>>
       ELSE /\ settled' = [status |-> status, outcome |-> Outcome(status)]
            /\ limiter' = [limiter EXCEPT !.activeCount = @ - 1]
            /\ phase' = [phase EXCEPT ![c] = "idle"]
            /\ timer' = [timer EXCEPT ![c] = 0]
            /\ invocations' = [invocations EXCEPT ![c] = 0]
  /\ UNCHANGED <<sinceStart, workersLimiter,
               bulkVars, serviceVars, batchVars>>

\* the transport call settles with some status and the operation's promise
\* is delivered to its caller, resolved or rejected; either way the limiter
\* releases the slot, activeCount--
Settle(c) ==
  /\ phase[c] = "transport"
  /\ \E status \in Statuses :
       settled' = [status |-> status, outcome |-> Outcome(status)]
  /\ limiter' = [limiter EXCEPT !.activeCount = @ - 1]
  /\ phase' = [phase EXCEPT ![c] = "idle"]
  /\ timer' = [timer EXCEPT ![c] = 0]
  /\ invocations' = [invocations EXCEPT ![c] = 0]
  /\ UNCHANGED <<sinceStart, workersLimiter,
               bulkVars, serviceVars, batchVars>>

NextDispatch ==
  \/ \E c \in Callers : Submit(c)
  \/ Acquire
  \/ Tick
  \/ \E c \in Callers : DelayElapsed(c)
  \/ \E c \in Callers : Settle(c)

InitIdleClient ==
  /\ kind = "pages"
  /\ api = ApiUp
  /\ now = MaxTime
  /\ remote = <<>>
  /\ maxAge = 0
  /\ options = [skipProduction |-> TRUE, keepLatest |-> 1,
                skipLatest |-> TRUE, dryRun |-> FALSE]
  /\ InitBulk
  /\ InitDispatch
  /\ NoBatchProcessor
  /\ InitService

SpecDispatch == InitIdleClient /\ [][NextDispatch]_vars

\* ----------------------------------------- ServiceManager's two clients
\* "this.pagesClient = new PagesClient(...)" and "this.workersClient = new
\* WorkersClient(...)": each constructor runs CloudflareClient's, which
\* creates the client's own pLimit(config.cloudflare.rateLimit.concurrent).
\* limiter is the Pages client's instance, workersLimiter the Workers
\* client's. The concurrent callers of the manager are split between its
\* clients: odd callers use Pages operations, even ones Workers operations.
PagesCallers == { c \in Callers : c % 2 = 1 }
WorkersCallers == Callers \ PagesCallers

\* makeRequest on the Workers client: the operation is queued in that
\* client's limiter
WorkersSubmit(c) ==
  /\ phase[c] = "idle"
  /\ workersLimiter' = [workersLimiter EXCEPT !.queue = Append(@, c)]
  /\ phase' = [phase EXCEPT ![c] = "queued"]
  /\ UNCHANGED <<limiter, timer, sinceStart, invocations, settled,
                 bulkVars, serviceVars, batchVars>>

\* the Workers client's limiter starts the head of its queue
WorkersAcquire ==
  /\ workersLimiter.queue # <<>>
  /\ SlotFree(workersLimiter)
  /\ workersLimiter' = [activeCount |-> workersLimiter.activeCount + 1,
                        queue |-> Tail(workersLimiter.queue)]
  /\ phase' = [phase EXCEPT ![Head(workersLimiter.queue)] = "delay"]
  /\ timer' = [timer EXCEPT ![Head(workersLimiter.queue)] = 0]
  /\ UNCHANGED <<limiter, sinceStart, invocations, settled,
                 bulkVars, serviceVars, batchVars>>

\* a transport call of the Workers client settles and its limiter releases
\* the slot
WorkersSettle(c) ==
  /\ phase[c] = "transport"
  /\ \E status \in Statuses :
       settled' = [status |-> status, outcome |-> Outcome(status)]
  /\ workersLimiter' = [workersLimiter EXCEPT !.activeCount = @ - 1]
  /\ phase' = [phase EXCEPT ![c] = "idle"]
  /\ timer' = [timer EXCEPT ![c] = 0]
  /\ invocations' = [invocations EXCEPT ![c] = 0]
  /\ UNCHANGED <<limiter, sinceStart, bulkVars, serviceVars, batchVars>>

NextManager ==
  \/ \E c \in PagesCallers : Submit(c)
  \/ Acquire
  \/ \E c \in WorkersCallers : WorkersSubmit(c)
  \/ WorkersAcquire
  \/ Tick
  \/ \E c \in Callers : DelayElapsed(c)
  \/ \E c \in PagesCallers : Settle(c)
  \/ \E c \in WorkersCallers : WorkersSettle(c)

\* new ServiceManager(apiToken, accountId): both clients idle
InitManager == InitIdleClient

SpecManager == InitManager /\ [][NextManager]_vars

\* -------------------------------------------------- ServiceManager
\* The account's resources as the API lists them: n Pages projects, n
\* Workers scripts.
PagesProject(i) == [name |-> <<"project", i>>, id |-> <<"pid", i>>]
WorkerScript(i) == [id |-> <<"script", i>>]
ProjectsOf(n) == [i \in 1..n |-> PagesProject(i)]
ScriptsOf(n) == [i \in 1..n |-> WorkerScript(i)]

\* listAllResources: "pagesProjects.map(project => ({ type: 'pages', name:
\* project.name, id: project.id, ... }))"
PagesResource(project) ==
  [type |-> "pages", name |-> project.name, id |-> project.id]
\* "workersScripts.map(script => ({ type: 'workers', name: script.id, id:
\* script.id, ... }))"
WorkersResource(script) ==
  [type |-> "workers", name |-> script.id, id |-> script.id]

\* mutant: the listing is taken whatever the answer
ListedOrEmpty_Always(answer, list) == list

\* What a listing promise of listAllResources settles to: listProjects /
\* listScripts return response.result on success: true and throw otherwise;
\* ".catch(error => { logger.warn(...); return [] })" turns the rejection
\* into an empty list.
ListedOrEmpty(answer, list) == IF answer = "ok" THEN list ELSE <<>>

\* The bulk-delete and dispatcher parts at rest.
InitIdleBulk ==
  /\ kind = "pages"
  /\ api = ApiUp
  /\ now = MaxTime
  /\ remote = <<>>
  /\ maxAge = 0
  /\ options = [skipProduction |-> TRUE, keepLatest |-> 1,
                skipLatest |-> TRUE, dryRun |-> FALSE]
  /\ InitBulk
  /\ InitDispatch
  /\ NoBatchProcessor

\* The operation op has been called and has done nothing yet.
Called ==
  /\ spc = "start"
  /\ waiting = {}
  /\ invoked = <<>>
  /\ transport = <<>>
  /\ ret = NoReturn
  /\ locals = NoLocals

\* A call of ServiceManager.listAllResources()
ListAllResourcesCalls ==
  [name : {"listAllResources"},
   projects : { ProjectsOf(n) : n \in 0..MaxResources },
   scripts : { ScriptsOf(n) : n \in 0..MaxResources },
   answers : [{"pages/projects", "workers/scripts"} -> Answers]]

\* Promise.all([listProjects().catch(...), listScripts().catch(...)]): both
\* GETs are issued before either is awaited
ListAllResources ==
  /\ op.name = "listAllResources"
  /\ spc = "start"
  /\ transport' = <<"pages/projects", "workers/scripts">>
  /\ waiting' = {"pages/projects", "workers/scripts"}
  /\ ret' = [pages |-> <<>>, workers |-> <<>>]
  /\ spc' = "listing"
  /\ UNCHANGED <<op, invoked, locals, bulkVars, dispatchVars, batchVars>>

\* one of the two listings settles, in either order; when both have, the
\* resources are mapped and returned
ListingSettles(e) ==
  /\ op.name = "listAllResources"
  /\ spc = "listing"
  /\ e \in waiting
  /\ waiting' = waiting \ {e}
  /\ ret' = IF e = "pages/projects"
            THEN [ret EXCEPT !.pages =
                    LET listed == ListedOrEmpty(op.answers[e], op.projects)
                    IN  [i \in DOMAIN listed |-> PagesResource(listed[i])]]
            ELSE [ret EXCEPT !.workers =
                    LET listed == ListedOrEmpty(op.answers[e], op.scripts)
                    IN  [i \in DOMAIN listed |-> WorkersResource(listed[i])]]
  /\ spc' = IF waiting' = {} THEN "resolved" ELSE "listing"
  /\ UNCHANGED <<op, invoked, transport, locals, bulkVars, dispatchVars, batchVars>>

\* A call of CloudflareClient.validateConnection()
ValidateConnectionCalls ==
  [name : {"validateConnection"},
   answers : [{"accounts/tokens/verify", "user/tokens/verify"} -> Answers]]

\* mutant: any answer that was not thrown counts as verified
Verified_NotThrown(answer) == answer # "throws"

\* "if (response.success) return { valid: true, ... } else throw ..."
Verified(answer) == answer = "ok"

\* "const response = await this.get(`/accounts/${accountId}/tokens/verify`)"
ValidateConnection ==
  /\ op.name = "validateConnection"
  /\ spc = "start"
  /\ transport' = <<"accounts/tokens/verify">>
  /\ waiting' = {"accounts/tokens/verify"}
  /\ spc' = "account"
  /\ UNCHANGED <<op, invoked, ret, locals, bulkVars, dispatchVars, batchVars>>

\* the account-specific check settles: valid, or "catch (accountError)"
\* issues the general check
AccountCheckSettles ==
  /\ op.name = "validateConnection"
  /\ spc = "account"
  /\ IF Verified(op.answers["accounts/tokens/verify"])
     THEN /\ ret' = [valid |-> TRUE, method |-> "account-specific"]
          /\ waiting' = {}
          /\ spc' = "resolved"
          /\ UNCHANGED transport
     ELSE /\ transport' = Append(transport, "user/tokens/verify")
          /\ waiting' = {"user/tokens/verify"}
          /\ spc' = "general"
          /\ UNCHANGED ret
  /\ UNCHANGED <<op, invoked, locals, bulkVars, dispatchVars, batchVars>>

\* the general check settles: valid, or "catch (generalError)" returns
\* { valid: false, error }
GeneralCheckSettles ==
  /\ op.name = "validateConnection"
  /\ spc = "general"
  /\ ret' = IF Verified(op.answers["user/tokens/verify"])
            THEN [valid |-> TRUE, method |-> "general"]
            ELSE [valid |-> FALSE, error |-> "Both validation methods failed"]
  /\ waiting' = {}
  /\ spc' = "resolved"
  /\ UNCHANGED <<op, invoked, transport, locals, bulkVars, dispatchVars, batchVars>>

\* A call of ServiceManager.listDeployments, bulkDeleteDeployments or
\* deleteResource: its resourceType argument, the dryRun option
\* (deleteResource hands its options to the client), and the answers of the
\* API to the existence GET and to the DELETE of the resource.
ResourceTypes == {"pages", "workers", "invalid"}
ManagerCalls ==
  [name : {"listDeployments", "bulkDeleteDeployments"},
   resourceType : ResourceTypes]
  \cup
  [name : {"deleteResource"},
   resourceType : ResourceTypes,
   dryRun : BOOLEAN,
   answers : [{"GET resource", "DELETE resource"} -> Answers]]

\* mutant: every type but 'pages' is handed to the Workers client
Supported_ElseWorkers(resourceType) == TRUE

\* "if (resourceType === 'pages') ... else if (resourceType === 'workers')
\* ... else throw new Error(`Unsupported resource type: ...`)"
Supported(resourceType) == resourceType \in {"pages", "workers"}

\* the client method a ServiceManager method calls for a resource type
ClientMethod(name, resourceType) ==
  IF resourceType = "pages"
  THEN CASE name = "listDeployments" -> "pagesClient.listAllDeployments"
         [] name = "bulkDeleteDeployments" -> "pagesClient.bulkDeleteDeployments"
         [] OTHER -> "pagesClient.deleteProject"
  ELSE CASE name = "listDeployments" -> "workersClient.listAllDeployments"
         [] name = "bulkDeleteDeployments" -> "workersClient.bulkDeleteDeployments"
         [] OTHER -> "workersClient.deleteScript"

\* the ServiceManager method selects the client by resourceType, or throws
\* (its catch logs and rethrows)
SelectClient ==
  /\ op.name \in {"listDeployments", "bulkDeleteDeployments", "deleteResource"}
  /\ spc = "start"
  /\ IF Supported(op.resourceType)
     THEN /\ invoked' = <<ClientMethod(op.name, op.resourceType)>>
          /\ spc' = "client"
          /\ UNCHANGED ret
     ELSE /\ ret' = [error |-> "Unsupported resource type"]
          /\ spc' = "rejected"
          /\ UNCHANGED invoked
  /\ UNCHANGED <<op, waiting, transport, locals, bulkVars, dispatchVars, batchVars>>

\* listAllDeployments / bulkDeleteDeployments of the selected client
\* resolves or rejects; the ServiceManager adds resourceType to the result,
\* or rethrows
ClientMethodSettles ==
  /\ op.name \in {"listDeployments", "bulkDeleteDeployments"}
  /\ spc = "client"
  /\ \E resolves \in BOOLEAN :
       IF resolves
       THEN /\ ret' = [resourceType |-> op.resourceType]
            /\ spc' = "resolved"
       ELSE /\ ret' = [error |-> "client error"]
            /\ spc' = "rejected"
  /\ UNCHANGED <<op, waiting, invoked, transport, locals, bulkVars, dispatchVars, batchVars>>

\* mutant: the existence check runs before the dry-run test
DryRunReturns_AfterCheck(o) == FALSE

\* deleteProject / deleteScript: "if (dryRun) { ...; return { success: true,
\* dryRun: true } }"
DryRunReturns(o) == o.dryRun

\* deleteProject / deleteScript up to its first await: the dry-run return,
\* or the GET that verifies the resource exists
DeleteWholeResource ==
  /\ op.name = "deleteResource"
  /\ spc = "client"
  /\ IF DryRunReturns(op)
     THEN /\ ret' = [success |-> TRUE, dryRun |-> TRUE,
                     resourceType |-> op.resourceType]
          /\ spc' = "resolved"
          /\ UNCHANGED <<waiting, transport>>
     ELSE /\ transport' = <<"GET resource">>
          /\ waiting' = {"GET resource"}
          /\ spc' = "exists"
          /\ UNCHANGED ret
  /\ UNCHANGED <<op, invoked, locals, bulkVars, dispatchVars, batchVars>>

\* mutant: the DELETE is issued whatever the existence check answered
ExistenceCheckSettles_Unchecked ==
  /\ op.name = "deleteResource"
  /\ spc = "exists"
  /\ transport' = Append(transport, "DELETE resource")
  /\ waiting' = {"DELETE resource"}
  /\ spc' = "deleting"
  /\ UNCHANGED <<op, invoked, ret, locals, bulkVars, dispatchVars, batchVars>>

\* getProject / getScript settles: the DELETE is issued, or the error is
\* rethrown
ExistenceCheckSettles ==
  /\ op.name = "deleteResource"
  /\ spc = "exists"
  /\ IF op.answers["GET resource"] = "ok"
     THEN /\ transport' = Append(transport, "DELETE resource")
          /\ waiting' = {"DELETE resource"}
          /\ spc' = "deleting"
          /\ UNCHANGED ret
     ELSE /\ ret' = [error |-> "Failed to fetch resource"]
          /\ waiting' = {}
          /\ spc' = "rejected"
          /\ UNCHANGED transport
  /\ UNCHANGED <<op, invoked, locals, bulkVars, dispatchVars, batchVars>>

\* the DELETE of the resource settles: { success: true }, or an error
ResourceDeleteSettles ==
  /\ op.name = "deleteResource"
  /\ spc = "deleting"
  /\ IF op.answers["DELETE resource"] = "ok"
     THEN /\ ret' = [success |-> TRUE, resourceType |-> op.resourceType]
          /\ spc' = "resolved"
     ELSE /\ ret' = [error |-> "Failed to delete resource"]
          /\ spc' = "rejected"
  /\ waiting' = {}
  /\ UNCHANGED <<op, invoked, transport, locals, bulkVars, dispatchVars, batchVars>>

\* A Worker script's history as the API lists it: n deployments on the
\* deployments endpoint, n versions on the versions endpoint.
ScriptDeployment(i) == [id |-> <<"deployment", i>>, created_on |-> i]
\* (a version's number is not its creation day)
ScriptVersion(i) ==
  [id |-> <<"version", i>>, created_on |-> i, number |-> 2 * i]

\* A call of WorkersClient.listDeployments(scriptName)
ListDeploymentsCalls ==
  [name : {"workersClient.listDeployments"},
   deployments : { [i \in 1..n |-> ScriptDeployment(i)] : n \in 0..MaxResources },
   versions : { [i \in 1..n |-> ScriptVersion(i)] : n \in 0..MaxResources },
   answers : [{"GET deployments", "GET versions"} -> Answers]]

\* mutant: the version field is taken from created_on
VersionAsDeployment_DateAsVersion(version) ==
  [id |-> version.id, created_on |-> version.created_on,
   version |-> version.created_on, environment |-> "production", status |-> "active"]

\* listScriptVersions: "response.result.map(version => ({ id: version.id,
\* created_on: version.created_on, ..., version: version.number, ...,
\* environment: 'production', status: 'active' }))"
VersionAsDeployment(version) ==
  [id |-> version.id, created_on |-> version.created_on,
   version |-> version.number, environment |-> "production",
   status |-> "active"]

\* listDeployments: GET .../deployments
ListDeployments ==
  /\ op.name = "workersClient.listDeployments"
  /\ spc = "start"
  /\ transport' = <<"GET deployments">>
  /\ waiting' = {"GET deployments"}
  /\ spc' = "deployments"
  /\ UNCHANGED <<op, invoked, ret, locals, bulkVars, dispatchVars, batchVars>>

\* the deployments GET settles: success: true returns its result; anything
\* else is thrown into "catch (error)", which calls listScriptVersions:
\* GET .../versions
DeploymentsListingSettles ==
  /\ op.name = "workersClient.listDeployments"
  /\ spc = "deployments"
  /\ IF op.answers["GET deployments"] = "ok"
     THEN /\ ret' = [deployments |-> op.deployments]
          /\ waiting' = {}
          /\ spc' = "resolved"
          /\ UNCHANGED transport
     ELSE /\ transport' = Append(transport, "GET versions")
          /\ waiting' = {"GET versions"}
          /\ spc' = "versions"
          /\ UNCHANGED ret
  /\ UNCHANGED <<op, invoked, locals, bulkVars, dispatchVars, batchVars>>

\* the versions GET settles: success: true returns the versions mapped to
\* deployment records; anything else rejects
VersionsListingSettles ==
  /\ op.name = "workersClient.listDeployments"
  /\ spc = "versions"
  /\ IF op.answers["GET versions"] = "ok"
     THEN /\ ret' = [deployments |->
                       [i \in DOMAIN op.versions |->
                          VersionAsDeployment(op.versions[i])]]
          /\ spc' = "resolved"
     ELSE /\ ret' = [error |-> "Failed to fetch versions"]
          /\ spc' = "rejected"
  /\ waiting' = {}
  /\ UNCHANGED <<op, invoked, transport, locals, bulkVars, dispatchVars, batchVars>>

\* A call of WorkersClient.deleteDeployment(scriptName, deploymentId)
DeleteDeploymentCalls ==
  [name : {"workersClient.deleteDeployment"},
   answers : [{"DELETE deployments", "DELETE versions"} -> Answers]]

\* the Error a rejected transport call throws (handleApiError), told apart
\* by the call it belongs to
ThrownBy(request) == [error |-> "API error", request |-> request]

\* deleteDeployment: "response = await this.delete(.../deployments/<id>)"
DeleteDeployment ==
  /\ op.name = "workersClient.deleteDeployment"
  /\ spc = "start"
  /\ transport' = <<"DELETE deployments">>
  /\ waiting' = {"DELETE deployments"}
  /\ spc' = "primary"
  /\ UNCHANGED <<op, invoked, ret, locals, bulkVars, dispatchVars, batchVars>>

\* mutant: an unsuccessful answer falls back too
PrimaryDeleteSettles_FallsBackOnUnsuccessful ==
  /\ op.name = "workersClient.deleteDeployment"
  /\ spc = "primary"
  /\ IF op.answers["DELETE deployments"] # "ok"
     THEN /\ transport' = Append(transport, "DELETE versions")
          /\ waiting' = {"DELETE versions"}
          /\ spc' = "fallback"
          /\ UNCHANGED ret
     ELSE /\ waiting' = {}
          /\ ret' = [value |-> TRUE]
          /\ spc' = "resolved"
          /\ UNCHANGED transport
  /\ UNCHANGED <<op, invoked, locals, bulkVars, dispatchVars, batchVars>>

\* the deployments DELETE settles. Rejected: the inner "catch (error)"
\* issues the versions DELETE. Resolved: "if (response.success) return
\* true; else throw new Error(`Failed to delete deployment ...`)"
PrimaryDeleteSettles ==
  /\ op.name = "workersClient.deleteDeployment"
  /\ spc = "primary"
  /\ IF op.answers["DELETE deployments"] = "throws"
     THEN /\ transport' = Append(transport, "DELETE versions")
          /\ waiting' = {"DELETE versions"}
          /\ spc' = "fallback"
          /\ UNCHANGED ret
     ELSE /\ waiting' = {}
          /\ IF op.answers["DELETE deployments"] = "ok"
             THEN /\ ret' = [value |-> TRUE]
                  /\ spc' = "resolved"
             ELSE /\ ret' = [error |-> "Failed to delete deployment"]
                  /\ spc' = "rejected"
          /\ UNCHANGED transport
  /\ UNCHANGED <<op, invoked, locals, bulkVars, dispatchVars, batchVars>>

\* the versions DELETE settles: its rejection leaves the inner catch and is
\* rethrown by the outer one; its response is tested like the primary one
FallbackDeleteSettles ==
  /\ op.name = "workersClient.deleteDeployment"
  /\ spc = "fallback"
  /\ CASE op.answers["DELETE versions"] = "throws" ->
            /\ ret' = ThrownBy("DELETE versions")
            /\ spc' = "rejected"
       [] op.answers["DELETE versions"] = "ok" ->
            /\ ret' = [value |-> TRUE]
            /\ spc' = "resolved"
       [] OTHER ->
            /\ ret' = [error |-> "Failed to delete deployment"]
            /\ spc' = "rejected"
  /\ waiting' = {}
  /\ UNCHANGED <<op, invoked, transport, locals, bulkVars, dispatchVars, batchVars>>

InitServiceCall ==
  /\ InitIdleBulk
  /\ op \in ListAllResourcesCalls \cup ValidateConnectionCalls
             \cup ManagerCalls \cup ListDeploymentsCalls
             \cup DeleteDeploymentCalls
  /\ Called

NextService ==
  \/ ListAllResources
  \/ \E e \in {"pages/projects", "workers/scripts"} : ListingSettles(e)
  \/ ValidateConnection
  \/ AccountCheckSettles
  \/ GeneralCheckSettles
  \/ SelectClient
  \/ ClientMethodSettles
  \/ DeleteWholeResource
  \/ ExistenceCheckSettles
  \/ ResourceDeleteSettles
  \/ ListDeployments
  \/ DeploymentsListingSettles
  \/ VersionsListingSettles
  \/ DeleteDeployment
  \/ PrimaryDeleteSettles
  \/ FallbackDeleteSettles

SpecService == InitServiceCall /\ [][NextService]_vars

\* --------------------------------------- WorkersClient.listAllDeployments
PerPage == 100      \* "const perPage = 100"
PageLimit == 50     \* "if (page > 50)"

\* How many full pages the remote script can hold in the calls examined:
\* none to two, and around the page limit up to MaxFullPages
FullPageCounts == (0..2) \cup ((PageLimit - 1)..MaxFullPages)

\* A call of WorkersClient.listAllDeployments(scriptName) with no maxAge on
\* a script whose listing holds fullPages pages of PerPage items and then a
\* page of lastLength items; the request of page failAt is rejected (0: none)
ListAllDeploymentsCalls ==
  [name : {"workersClient.listAllDeployments"},
   fullPages : FullPageCounts,
   lastLength : {0, 1, PerPage - 1},
   failAt : {0, 1, 2, PageLimit},
   maxAge : {0}]

\* The items listDeployments resolves with for page p: item numbers in
\* listing order
RemotePage(o, p) ==
  LET n == IF p <= o.fullPages THEN PerPage
           ELSE IF p = o.fullPages + 1 THEN o.lastLength
           ELSE 0
  IN  [i \in 1..n |-> (p - 1) * PerPage + i]

\* "let allDeployments = []; let page = 1; let hasMore = true;" and the first
\* test of "while (hasMore)": listDeployments(scriptName, {page, perPage})
StartPaging ==
  /\ op.name = "workersClient.listAllDeployments"
  /\ spc = "start"
  /\ locals' = [allDeployments |-> <<>>, page |-> 1, hasMore |-> TRUE]
  /\ transport' = <<[request |-> "listDeployments", page |-> 1]>>
  /\ spc' = "page"
  /\ UNCHANGED <<op, waiting, invoked, ret, bulkVars, dispatchVars, batchVars>>

\* mutant: the safety limit is never reached
PastLimit_Never(page) == FALSE

\* "if (page > 50) { ...; break; }"
PastLimit(page) == page > PageLimit

\* listDeployments settles. Rejected: the catch rethrows. Resolved: concat,
\* "hasMore = deployments.length === perPage", "page++", the safety limit,
\* and either the next turn of the loop with its request or the return
\* (maxAge unset: no age filter)
PageSettles ==
  /\ op.name = "workersClient.listAllDeployments"
  /\ spc = "page"
  /\ IF locals.page = op.failAt
     THEN /\ ret' = [error |-> "Failed to fetch all deployments"]
          /\ spc' = "rejected"
          /\ UNCHANGED <<locals, transport>>
     ELSE LET fetchedPage == RemotePage(op, locals.page)
              all == locals.allDeployments \o fetchedPage
              hasMore == Len(fetchedPage) = PerPage
              page == locals.page + 1
          IN  /\ locals' = [allDeployments |-> all, page |-> page,
                            hasMore |-> hasMore]
              /\ IF hasMore /\ ~PastLimit(page)
                 THEN /\ transport' = Append(transport,
                             [request |-> "listDeployments", page |-> page])
                      /\ spc' = "page"
                      /\ UNCHANGED ret
                 ELSE /\ ret' = [deployments |->
                                   IF op.maxAge = 0 THEN all
                                   ELSE AgeFilter(all, op.maxAge, now)]
                      /\ spc' = "resolved"
                      /\ UNCHANGED transport
  /\ UNCHANGED <<op, waiting, invoked, bulkVars, dispatchVars, batchVars>>

InitPaging ==
  /\ InitIdleBulk
  /\ op \in ListAllDeploymentsCalls
  /\ Called

NextPaging ==
  \/ StartPaging
  \/ PageSettles

\* Every awaited promise settles: the loop is not suspended for ever.
SpecPaging == InitPaging /\ [][NextPaging]_vars /\ WF_vars(NextPaging)

\* ------------------------------ ServiceManager.bulkDeleteMultipleResources
\* What the client's bulkDeleteDeployments counts on a resource with two
\* deployments listed, when it does not throw
DeleteCounts ==
  { c \in [success : 0..2, failed : 0..2, skipped : 0..1] :
      c.success + c.failed + c.skipped = 2 }

\* the client's bulkDeleteDeployments rejects instead
DeleteThrew == [thrown |-> TRUE]

\* A selected resource and how the API treats it: its listing throws,
\* is empty or holds two deployments, and then its bulk delete throws or
\* counts; a type that is not supported has nothing more to say
SelectedResources ==
  { r \in [type : ResourceTypes,
           listing : {"throws", "empty", "some"},
           deletes : {DeleteThrew} \cup DeleteCounts] :
      /\ r.type = "invalid" => r.listing = "throws"
      /\ r.listing # "some" => r.deletes = DeleteThrew }

\* A call of bulkDeleteMultipleResources(resources, {dryRun})
MultipleCalls ==
  [name : {"bulkDeleteMultipleResources"},
   resources : UNION { [1..n -> SelectedResources] : n \in 0..MaxResources },
   dryRun : BOOLEAN]

\* the deployments ServiceManager.listDeployments resolves with
ListedFor(resource) == IF resource.listing = "some" THEN <<1, 2>> ELSE <<>>

\* the value the client's bulkDeleteDeployments resolves with, to which
\* ServiceManager.bulkDeleteDeployments adds resourceType and resourceName
BulkResult(resource, name, dryRun) ==
  (IF dryRun
   THEN DryRunResult(resource.deletes.skipped)
   ELSE FinalResult(resource.deletes.success, resource.deletes.failed,
                    resource.deletes.skipped, ListedFor(resource)))
    @@ [resourceType |-> resource.type, resourceName |-> name]

\* "results.push({ ..., success: 0, failed: 0, skipped: 0, total: 0,
\* message: 'No deployments found' })"
NoDeploymentsEntry(resource, name) ==
  [resourceType |-> resource.type, resourceName |-> name, success |-> 0,
   failed |-> 0, skipped |-> 0, total |-> 0,
   message |-> "No deployments found"]

\* mutant: a resource whose processing threw leaves no entry
ErrorEntry_Dropped(resource, name) == <<>>

\* the catch of the loop body: "results.push({ ..., success: 0, failed: 1,
\* skipped: 0, total: 0, error: error.message })"
ErrorEntry(resource, name) ==
  <<[resourceType |-> resource.type, resourceName |-> name, success |-> 0,
     failed |-> 1, skipped |-> 0, total |-> 0, error |-> "error.message"]>>

\* the summary returned after the loop
Summary(l, o) ==
  [totalResources |-> Len(o.resources), totalDeleted |-> l.totalDeleted,
   totalErrors |-> l.totalErrors, results |-> l.results,
   dryRun |-> o.dryRun]

\* the argument check, then the first turn of the loop calls
\* this.listDeployments(type, name, deploymentOptions)
BulkDeleteMultipleResources ==
  /\ op.name = "bulkDeleteMultipleResources"
  /\ spc = "start"
  /\ IF Len(op.resources) = 0
     THEN /\ ret' = [error |-> "No resources selected for bulk delete"]
          /\ spc' = "rejected"
          /\ UNCHANGED <<locals, invoked>>
     ELSE /\ locals' = [i |-> 1, results |-> <<>>, totalDeleted |-> 0,
                        totalErrors |-> 0]
          /\ invoked' = <<[method |-> "listDeployments", name |-> 1]>>
          /\ spc' = "listing"
          /\ UNCHANGED ret
  /\ UNCHANGED <<op, waiting, transport, bulkVars, dispatchVars, batchVars>>

\* The turn for resource i has pushed its entry: the next turn calls
\* listDeployments, or the loop is over and the summary is returned
NextResource(l) ==
  /\ locals' = [l EXCEPT !.i = @ + 1]
  /\ IF l.i < Len(op.resources)
     THEN /\ invoked' = Append(invoked, [method |-> "listDeployments",
                                         name |-> l.i + 1])
          /\ spc' = "listing"
          /\ UNCHANGED ret
     ELSE /\ ret' = Summary(l, op)
          /\ spc' = "resolved"
          /\ UNCHANGED invoked

\* what the catch of the loop body does to the locals
Caught(l, resource) ==
  [l EXCEPT !.results = @ \o ErrorEntry(resource, l.i),
            !.totalErrors = @ + 1]

\* listDeployments settles: it threw (the type is not supported, or the
\* listing failed), it resolved with no deployments ("continue"), or
\* bulkDeleteDeployments is called with the delete options
ResourceListed ==
  /\ op.name = "bulkDeleteMultipleResources"
  /\ spc = "listing"
  /\ LET resource == op.resources[locals.i]
     IN  CASE resource.listing = "throws" ->
                NextResource(Caught(locals, resource))
           [] resource.listing = "empty" ->
                NextResource([locals EXCEPT !.results =
                    Append(@, NoDeploymentsEntry(resource, locals.i))])
           [] OTHER ->
                /\ invoked' = Append(invoked,
                       [method |-> "bulkDeleteDeployments", name |-> locals.i])
                /\ spc' = "deleting"
                /\ UNCHANGED <<locals, ret>>
  /\ UNCHANGED <<op, waiting, transport, bulkVars, dispatchVars, batchVars>>

\* bulkDeleteDeployments settles: it threw, or its result is pushed and
\* "totalDeleted += result.success; totalErrors += result.failed"
ResourceDeleted ==
  /\ op.name = "bulkDeleteMultipleResources"
  /\ spc = "deleting"
  /\ LET resource == op.resources[locals.i]
     IN  IF resource.deletes = DeleteThrew
         THEN NextResource(Caught(locals, resource))
         ELSE LET pushed == BulkResult(resource, locals.i, op.dryRun)
              IN  NextResource([locals EXCEPT
                    !.results = Append(@, pushed),
                    !.totalDeleted = @ + pushed.success,
                    !.totalErrors = @ + pushed.failed])
  /\ UNCHANGED <<op, waiting, transport, bulkVars, dispatchVars, batchVars>>

InitMultiple ==
  /\ InitIdleBulk
  /\ op \in MultipleCalls
  /\ Called

NextMultiple ==
  \/ BulkDeleteMultipleResources
  \/ ResourceListed
  \/ ResourceDeleted

SpecMultiple == InitMultiple /\ [][NextMultiple]_vars

\* ------------------------------------------- CloudflareBatchProcessor
MaxAttempts == 3    \* createQueue: "maxAttempts: 3"

\* The queues are queue 1 with 1 .. MaxBatches batches and queue 2 with one
\* batch; a batch is named by its queue and its number in the queue.
QueueNames == 1..2
BatchIds == { <<1, k>> : k \in 1..MaxBatches } \cup { <<2, 1>> }

\* createQueue: "batches.push({ id, items, priority, name, attempts: 0,
\* maxAttempts: 3 })"; processing and error are not set yet
NewBatch(name, k) ==
  [id |-> <<name, k>>, items |-> ItemsPerBatch, attempts |-> 0,
   processing |-> FALSE, error |-> FALSE]

\* createQueue: "this.state.queues.set(name, { batches, ..., priority })"
NewQueue(name, n, priority) ==
  [batches |-> [k \in 1..n |-> NewBatch(name, k)], priority |-> priority]

\* A processor whose queues have been created, before processAllQueues
InitBatches ==
  /\ \E n \in 1..MaxBatches, priorities \in {<<0, 0>>, <<0, 1>>} :
       queues = <<NewQueue(1, n, priorities[1]), NewQueue(2, 1, priorities[2])>>
  /\ counters = [processedItems |-> 0, succeededItems |-> 0, failedItems |-> 0]
  /\ settings \in [maxConcurrency : 1..MaxWorkers]
  /\ activeWorkers = {}
  /\ main = "start"
  /\ emitted = {}
  /\ kind = "pages"
  /\ api = ApiUp
  /\ now = MaxTime
  /\ remote = <<>>
  /\ maxAge = 0
  /\ options = [skipProduction |-> TRUE, keepLatest |-> 1,
                skipLatest |-> TRUE, dryRun |-> FALSE]
  /\ InitBulk
  /\ InitDispatch
  /\ InitService

\* mutant: a batch still being processed is handed out again
Available_IgnoresProcessing(batch) == batch.attempts < MaxAttempts

\* getNextBatch: "batch.attempts < batch.maxAttempts && !batch.processing"
Available(batch) == batch.attempts < MaxAttempts /\ ~batch.processing

\* "queue.batches.find(...)": the position of the first available batch of
\* a queue, 0 when there is none
FirstAvailable(queue) ==
  LET found == { k \in DOMAIN queue.batches : Available(queue.batches[k]) }
  IN  IF found = {} THEN 0 ELSE CHOOSE k \in found : \A j \in found : k <= j

\* getNextBatch: the queues are visited in insertion order and a queue
\* replaces the selection only when its priority is strictly higher; the
\* result is [queue, position], or queue 0 for null
GetNextBatch ==
  LET offering == { q \in DOMAIN queues : FirstAvailable(queues[q]) # 0 }
      best == { q \in offering :
                  \A r \in offering : queues[r].priority <= queues[q].priority }
  IN  IF offering = {} THEN [queue |-> 0, position |-> 0]
      ELSE LET q == CHOOSE q \in best : \A r \in best : q <= r
           IN  [queue |-> q, position |-> FirstAvailable(queues[q])]

\* hasRemainingWork: "queue.batches.some(batch => batch.attempts <
\* batch.maxAttempts)"
HasRemainingWork ==
  \E q \in DOMAIN queues : \E k \in DOMAIN queues[q].batches :
    queues[q].batches[k].attempts < MaxAttempts

\* "while (this.hasRemainingWork() || activeWorkers.size > 0)": the next
\* position of processAllQueues; after the loop no worker is left to wait
\* for and 'processing-completed' is emitted
LoopTest(active) ==
  IF HasRemainingWork \/ active # {} THEN "fill" ELSE "completed"

\* processAllQueues up to the first test of its loop
ProcessAllQueues ==
  /\ main = "start"
  /\ main' = LoopTest(activeWorkers)
  /\ UNCHANGED <<queues, counters, settings, activeWorkers, emitted,
                 bulkVars, dispatchVars, serviceVars>>

\* One turn of "while (activeWorkers.size < this.options.maxConcurrency)":
\* getNextBatch marks the batch as processing and emits 'batch-started';
\* processBatch runs up to its first await ("batch.attempts++") and its
\* promise joins activeWorkers
StartWorker ==
  /\ main = "fill"
  /\ Cardinality(activeWorkers) < settings.maxConcurrency
  /\ LET work == GetNextBatch
         q == work.queue
         k == work.position
     IN  /\ q # 0
         /\ LET batch == queues[q].batches[k]
            IN  /\ queues' = [queues EXCEPT ![q].batches[k] =
                                [batch EXCEPT !.processing = TRUE,
                                              !.attempts = @ + 1]]
                /\ emitted' = emitted \cup
                     {[event |-> "batch-started", batchId |-> batch.id,
                       attempt |-> batch.attempts + 1]}
                /\ activeWorkers' = activeWorkers \cup
                     {[batchId |-> batch.id, attempt |-> batch.attempts + 1]}
  /\ UNCHANGED <<counters, settings, main, bulkVars, dispatchVars, serviceVars>>

\* The inner loop ends (no slot, or "if (!work) break"): "if
\* (activeWorkers.size > 0) await Promise.race(...)", else on to the
\* progress event, saveState and the 100 ms delay
FillDone ==
  /\ main = "fill"
  /\ \/ Cardinality(activeWorkers) >= settings.maxConcurrency
     \/ GetNextBatch.queue = 0
  /\ main' = IF activeWorkers # {} THEN "race" ELSE "sleep"
  /\ UNCHANGED <<queues, counters, settings, activeWorkers, emitted,
                 bulkVars, dispatchVars, serviceVars>>

\* "queue.batches.findIndex(b => b.id === batch.id)" and splice
WithoutBatch(batches, id) ==
  SelectSeq(batches, LAMBDA b : b.id # id)

\* the batch object a worker holds, as it is in its queue
Held(w) ==
  LET q == w.batchId[1]
      at == { k \in DOMAIN queues[q].batches :
                queues[q].batches[k].id = w.batchId }
  IN  [queue |-> q, position |-> IF at = {} THEN 0 ELSE CHOOSE k \in at : TRUE]

\* What the settling of a worker promise means for processAllQueues: a
\* pending Promise.race resolves with a fulfilled worker and rejects with a
\* rejected one, which leaves the loop through the catch ('processing-failed',
\* saveState, throw); outside the race nothing awaits the promise
AfterSettle(position, rejected) ==
  IF position = "race" THEN (IF rejected THEN "failed" ELSE "sleep")
  ELSE position

\* processBatch resolves: the items are counted, the batch is removed from
\* its queue, 'batch-completed' is emitted; finally() removes the promise
WorkerSucceeds(w) ==
  /\ main \in {"race", "sleep", "failed"}
  /\ w \in activeWorkers
  /\ LET held == Held(w)
         q == held.queue
     IN  /\ queues' = [queues EXCEPT ![q].batches = WithoutBatch(@, w.batchId)]
         /\ counters' = [counters EXCEPT
                           !.processedItems = @ + ItemsPerBatch,
                           !.succeededItems = @ + ItemsPerBatch]
         /\ emitted' = emitted \cup
              {[event |-> "batch-completed", batchId |-> w.batchId,
                attempt |-> IF held.position = 0 THEN w.attempt
                            ELSE queues[q].batches[held.position].attempts]}
  /\ activeWorkers' = activeWorkers \ {w}
  /\ main' = AfterSettle(main, FALSE)
  /\ UNCHANGED <<settings, bulkVars, dispatchVars, serviceVars>>

\* processBatch rejects (applyRateLimit or the bulk delete threw): the catch
\* clears processing, emits 'batch-failed' with willRetry, and at
\* maxAttempts counts the items as failed and removes the batch; it
\* rethrows, and finally() removes the promise
WorkerFails(w) ==
  /\ main \in {"race", "sleep", "failed"}
  /\ w \in activeWorkers
  /\ LET held == Held(w)
         q == held.queue
         k == held.position
         attempts == IF k = 0 THEN MaxAttempts ELSE queues[q].batches[k].attempts
         givenUp == attempts >= MaxAttempts
     IN  /\ queues' =
              IF k = 0 THEN queues
              ELSE IF givenUp
              THEN [queues EXCEPT ![q].batches = WithoutBatch(@, w.batchId)]
              ELSE [queues EXCEPT ![q].batches[k] =
                      [@ EXCEPT !.processing = FALSE, !.error = TRUE]]
         /\ emitted' = emitted \cup
              {[event |-> "batch-failed", batchId |-> w.batchId,
                attempt |-> attempts, willRetry |-> ~givenUp]}
         /\ counters' =
              IF givenUp
              THEN [counters EXCEPT !.processedItems = @ + ItemsPerBatch,
                                    !.failedItems = @ + ItemsPerBatch]
              ELSE counters
  /\ activeWorkers' = activeWorkers \ {w}
  /\ main' = AfterSettle(main, TRUE)
  /\ UNCHANGED <<settings, bulkVars, dispatchVars, serviceVars>>

\* the progress event, saveState and the 100 ms delay are over: the loop
\* condition is tested again
SleepEnds ==
  /\ main = "sleep"
  /\ main' = LoopTest(activeWorkers)
  /\ UNCHANGED <<queues, counters, settings, activeWorkers, emitted,
                 bulkVars, dispatchVars, serviceVars>>

NextBatch ==
  \/ ProcessAllQueues
  \/ StartWorker
  \/ FillDone
  \/ \E w \in activeWorkers : WorkerSucceeds(w)
  \/ \E w \in activeWorkers : WorkerFails(w)
  \/ SleepEnds

\* Every pending promise and timer of the processor settles.
SpecBatch == InitBatches /\ [][NextBatch]_vars /\ WF_vars(NextBatch)

\* ======================================================== properties
\* Observations the properties below are stated over.
Returned == pc = "done"
Started == pc \in {"loop", "done"}
Ids(seq) == [i \in DOMAIN seq |-> seq[i].id]
DeletedIds == { deleteLog[i].id : i \in DOMAIN deleteLog }
IsPrimary(c) == c.path = "deployments"
PrimaryIds == Ids(SelectSeq(deleteLog, IsPrimary))
\* ids are positions in the remote list
ItemOf(id) == remote[id]
DefaultOptions ==
  IF kind = "pages"
  THEN options.skipProduction /\ options.keepLatest = 1
  ELSE options.skipLatest
NewestFirst(seq) ==
  \A i, j \in DOMAIN seq :
    i < j => \/ seq[i].created_on > seq[j].created_on
             \/ seq[i].created_on = seq[j].created_on /\ seq[i].id < seq[j].id

\* C1: with dryRun = true no DELETE transport call is ever issued, and the
\* value returned has success = 0 and failed = 0 (Pages and Workers, every
\* input list, every protection policy).
C1_DryRunDeletesNothing ==
  options.dryRun =>
    /\ deleteLog = <<>>
    /\ call = NoCall
    /\ Returned => result.success = 0 /\ result.failed = 0

\* C1 witness: a dry run has returned although its delete set was not empty.
C1_Witness ==
  /\ Returned
  /\ options.dryRun
  /\ Len(deploymentsToDelete) >= 2
  /\ result.success = 0

\* C2 (as claimed): with skipProduction = true, Pages never issues a delete
\* for a deployment whose environment is 'production', whatever keepLatest.
C2_ProductionNeverDeleted ==
  (kind = "pages" /\ options.skipProduction) =>
    \A id \in DeletedIds : ItemOf(id).environment # "production"

\* C3 (as claimed): with a max age given, no deployment younger than the
\* cutoff (now - maxAge) is ever passed to a delete call.
C3_OnlyOlderThanCutoffDeleted ==
  maxAge > 0 =>
    \A id \in DeletedIds : ItemOf(id).created_on < now - maxAge

C6_EveryResultHasTotal ==
  Returned =>
    /\ "total" \in DOMAIN result
    /\ result.total = Len(deployments)
    /\ result.success + result.failed + result.skipped = result.total
    /\ options.dryRun => ("dryRun" \in DOMAIN result /\ result.dryRun)

\* C8 (as claimed): in scenario A exactly one delete is issued, for the
\* 40-day-old preview; the production deployment and the 1-day and 10-day
\* previews are not deleted.
C8_ScenarioA ==
  /\ \A id \in DeletedIds : ItemOf(id).created_on = now - 40
  /\ Returned => Len(deleteLog) = 1

\* C9 (as claimed): whenever keepLatest = N > 0, the N newest items of the
\* input are skipped and never deleted, whether skipProduction is true or
\* false (Pages).
C9_LatestNProtectedIndependently ==
  (kind = "pages" /\ options.keepLatest > 0 /\ Started) =>
    LET sorted == SortNewestFirst(deployments)
    IN  \A i \in DOMAIN sorted :
          i <= options.keepLatest => sorted[i].id \notin DeletedIds

\* C10: for Pages with skipProduction = true and keepLatest = 0 the skipped
\* items are exactly the production items of the input, and the delete set
\* is exactly the other input items, each once, newest first; the deletes
\* issued follow it.
C10_ProductionOnlyPolicy ==
  (kind = "pages" /\ options.skipProduction /\ options.keepLatest = 0
     /\ Started) =>
    LET prod == { i \in DOMAIN deployments :
                    deployments[i].environment = "production" }
        other == DOMAIN deployments \ prod
    IN  /\ skippedCount = Cardinality(prod)
        /\ { deploymentsToDelete[i] : i \in DOMAIN deploymentsToDelete }
             = { deployments[i] : i \in other }
        /\ Len(deploymentsToDelete) = Cardinality(other)
        /\ NewestFirst(deploymentsToDelete)
        /\ DeletedIds \subseteq { deployments[i].id : i \in other }
        /\ (Returned /\ ~options.dryRun) =>
             PrimaryIds = Ids(deploymentsToDelete)

\* C10 witness: such a run has returned; the input held a production item
\* and two previews, the older preview first.
C10_Witness ==
  /\ kind = "pages" /\ options.skipProduction /\ options.keepLatest = 0
  /\ Returned
  /\ ~options.dryRun
  /\ Len(deployments) = 3
  /\ deployments[1].environment = "preview"
  /\ deployments[2].environment = "production"
  /\ deployments[3].environment = "preview"
  /\ deployments[1].created_on < deployments[3].created_on
  /\ PrimaryIds = <<3, 1>>
  /\ result.skipped = 1

\* The options that switch every protection off.
NoProtection ==
  IF kind = "pages"
  THEN ~options.skipProduction /\ options.keepLatest = 0
  ELSE ~options.skipLatest
SameItems(s, t) ==
  /\ Len(s) = Len(t)
  /\ { s[i] : i \in DOMAIN s } = { t[i] : i \in DOMAIN t }

\* C11 (as claimed): with every protection off and no age filter, for both
\* kinds the delete set holds every input item once, ordered newest first
\* (ties in input order), and nothing is skipped.
C11_NoProtectionDeletesAllNewestFirst ==
  (NoProtection /\ maxAge = 0 /\ Started) =>
    /\ skippedCount = 0
    /\ SameItems(deploymentsToDelete, deployments)
    /\ NewestFirst(deploymentsToDelete)

CreatedOn(ids) == [i \in DOMAIN ids |-> ItemOf(ids[i]).created_on]

\* C12: WorkersClient.bulkDeleteDeployments with skipLatest = true and a
\* non-empty input in any order skips exactly one item, one with the
\* greatest created_on; all other items form the delete set, newest first,
\* and the deletes issued follow it (versions v5 .. v1: v4, v3, v2, v1 are
\* deleted and v5 is skipped).
C12_WorkersSkipsOnlyLatest ==
  (kind = "workers" /\ options.skipLatest /\ Started
     /\ Len(deployments) > 0) =>
    /\ skippedCount = 1
    /\ \E i \in DOMAIN deployments :
         /\ \A j \in DOMAIN deployments :
              deployments[i].created_on >= deployments[j].created_on
         /\ SameItems(deploymentsToDelete,
                      SelectSeq(deployments,
                                LAMBDA d : d # deployments[i]))
    /\ NewestFirst(deploymentsToDelete)
    /\ DeletedIds \subseteq { deploymentsToDelete[i].id :
                                i \in DOMAIN deploymentsToDelete }
    /\ (Returned /\ ~options.dryRun) =>
         /\ PrimaryIds = Ids(deploymentsToDelete)
         /\ result.skipped = 1
         /\ Len(deployments) = 5 => CreatedOn(PrimaryIds) = <<4, 3, 2, 1>>

\* C12 witness: scenario B has returned; the versions were listed out of
\* order (v5 neither first nor last) and v4, v3, v2, v1 were deleted.
C12_Witness ==
  /\ kind = "workers" /\ options.skipLatest
  /\ Returned
  /\ Len(deployments) = 5
  /\ deployments[3].created_on = 5
  /\ deployments[1].created_on = 2
  /\ CreatedOn(PrimaryIds) = <<4, 3, 2, 1>>
  /\ result.skipped = 1

\* C13: for every input and policy of either kind, bulkDeleteDeployments
\* partitions its input: the delete set holds input items only, each at most
\* once, every input item outside it is counted as skipped, and so
\* |delete set| + skipped = |input|.
C13_PolicyPartitionsInput ==
  Started =>
    LET inDelete == { deploymentsToDelete[i] : i \in DOMAIN deploymentsToDelete }
        input == { deployments[i] : i \in DOMAIN deployments }
    IN  /\ inDelete \subseteq input
        /\ Cardinality(inDelete) = Len(deploymentsToDelete)
        /\ skippedCount = Cardinality(input \ inDelete)
        /\ Len(deploymentsToDelete) + skippedCount = Len(deployments)
        /\ (Returned /\ Len(deployments) > 0) =>
             result.skipped = skippedCount

\* C13 witness: a Pages run with keepLatest = 1 has returned; of three input
\* items one was skipped and two were in the delete set.
C13_Witness ==
  /\ kind = "pages" /\ options.skipProduction /\ options.keepLatest = 1
  /\ Returned
  /\ ~options.dryRun
  /\ Len(deployments) = 3
  /\ Len(deploymentsToDelete) = 2
  /\ skippedCount = 1
  /\ result.skipped = 1

\* C14: for Pages with skipProduction = true and keepLatest at least the
\* number of input items, the delete set is empty, every input item is
\* counted as skipped, no delete call is issued, and the call returns a
\* result (success = 0, failed = 0, skipped = number of input items) with
\* no failure recorded.
C14_KeepLatestCoversInput ==
  (kind = "pages" /\ options.skipProduction
     /\ options.keepLatest >= Len(deployments) /\ Started) =>
    /\ deploymentsToDelete = <<>>
    /\ skippedCount = Len(deployments)
    /\ deleteLog = <<>>
    /\ call = NoCall
    /\ Returned
    /\ result.success = 0
    /\ result.failed = 0
    /\ result.skipped = Len(deployments)
    /\ progress.errors = <<>>

\* C14 witness: a run with keepLatest = 3 has returned on an input of two
\* items.
C14_Witness ==
  /\ kind = "pages" /\ options.skipProduction
  /\ options.keepLatest = 3
  /\ Len(deployments) = 2
  /\ Returned
  /\ ~options.dryRun
  /\ result.skipped = 2

\* The deletes of the run that are in flight: the loop awaits one at a time.
InFlightDeletes == IF call = NoCall THEN 0 ELSE 1

\* C15 (as claimed): the batch executor fans out: while an item of the
\* delete set is still to be submitted and fewer deletes than the
\* concurrency bound are in flight, the next delete can be issued without
\* waiting for the one in flight to finish.
C15_ExecutorFansOut ==
  (pc = "loop" /\ idx < Len(deploymentsToDelete)
     /\ InFlightDeletes < RateLimitConcurrent) =>
    ENABLED IssueDelete

\* C7: on one client at most RateLimitConcurrent transport calls execute at
\* any instant, however many callers use get/delete/post; every operation
\* past the bound waits in the queue until a slot is released.
C7_ConcurrencyBound ==
  /\ Cardinality(InFlight) <= RateLimitConcurrent
  /\ limiter.activeCount =
       Cardinality({ c \in Callers : phase[c] \in {"delay", "transport"} })
  /\ limiter.activeCount <= RateLimitConcurrent
  /\ \A c \in Callers :
       phase[c] = "queued" <=>
         \E i \in DOMAIN limiter.queue : limiter.queue[i] = c

\* C7 witness: the bound is reached by executing transport calls while a
\* further operation waits.
C7_Witness ==
  /\ Cardinality(InFlight) = RateLimitConcurrent
  /\ limiter.queue # <<>>

\* C16: an operation invokes its transport call only after it has acquired
\* a concurrency slot and then waited the configured delay: while it waits
\* in the queue no delay time is served and no transport call made, while it
\* is inside the delay it holds a slot and has made no transport call, and
\* once it is inside its transport call at least RateLimitDelay ms have been
\* waited since it acquired its slot.
C16_SlotThenDelayThenTransport ==
  /\ \A c \in Callers :
       /\ phase[c] \in {"idle", "queued"} =>
            (timer[c] = 0 /\ invocations[c] = 0)
       /\ phase[c] = "delay" => invocations[c] = 0
       /\ phase[c] = "transport" => timer[c] >= RateLimitDelay
  /\ Cardinality({ c \in Callers : timer[c] > 0 \/ invocations[c] > 0 })
       <= limiter.activeCount

\* C16 witness: one operation is inside its transport call after its delay,
\* another holds a slot with its delay not yet served, a third is queued.
C16_Witness ==
  \E c, d, e \in Callers :
    /\ phase[c] = "transport" /\ timer[c] >= RateLimitDelay
    /\ phase[d] = "delay" /\ timer[d] < RateLimitDelay
    /\ phase[e] = "queued"

\* C17 (as claimed): between the starts of any two transport calls made
\* through the dispatcher at least RateLimitDelay ms elapse, also when
\* several operations are submitted concurrently: whenever a transport call
\* starts, the previous start lies at least RateLimitDelay ms back.
C17_MinDelayBetweenStarts ==
  [][\A c \in Callers :
       (phase[c] = "delay" /\ phase'[c] = "transport") =>
         sinceStart >= RateLimitDelay]_vars

\* C18: the dispatcher never retries: the transport call of an operation
\* is invoked only at the end of its delay and only once, and when the call
\* ends (status 200, 429 or 500) the operation settles in that same step
\* and frees its caller, resolved on 200 and rejected with an error on 429
\* and 500, after exactly one invocation.
C18_DispatcherNeverRetries ==
  [][\A c \in Callers :
       /\ invocations'[c] > invocations[c] =>
            /\ phase[c] = "delay" /\ phase'[c] = "transport"
            /\ invocations[c] = 0 /\ invocations'[c] = 1
       /\ (phase[c] = "transport" /\ phase'[c] # "transport") =>
            /\ invocations[c] = 1
            /\ phase'[c] = "idle"
            /\ settled'.status \in Statuses
            /\ settled'.status \in {429, 500} => settled'.outcome = "rejected"
            /\ settled'.status = 200 => settled'.outcome = "resolved"
       /\ (phase[c] = "transport" /\ phase'[c] = "transport") =>
            invocations'[c] = 1]_vars

\* C18 witness: an operation was rejected on status 429 and its caller is
\* idle again, with no further transport call made for it, while another
\* operation is inside its only transport call.
C18_Witness ==
  /\ settled = [status |-> 429, outcome |-> "rejected"]
  /\ \E c, d \in Callers :
       /\ phase[c] = "idle" /\ invocations[c] = 0
       /\ phase[d] = "transport" /\ invocations[d] = 1

\* The failure class "not supported": the deployments path does not exist
\* for the script (status 404).
NotSupported(status) == status = 404

\* C19 (as claimed): WorkersClient.deleteDeployment attempts the
\* 'deployments' path first and issues the 'versions' call only after the
\* primary attempt failed with the "not supported" failure class, not after
\* an authentication, rate-limit or server error.
C19_FallbackOnlyWhenNotSupported ==
  (kind = "workers" /\ call.path = "versions") =>
    /\ NotSupported(call.cause)
    /\ Len(deleteLog) >= 2
    /\ deleteLog[Len(deleteLog) - 1] = [id |-> call.id, path |-> "deployments"]

\* The deployments of the resource cannot be fetched: the listing GET is
\* rejected or answers success: false (Workers: on both of its paths).
ListingFails ==
  IF kind = "pages" THEN api.deployments # "ok"
  ELSE api.deployments # "ok" /\ api.versions # "ok"

\* C20 (as claimed): a listing failure is fatal: when the deployments
\* cannot be fetched, the listing rejects and never returns a list, so no
\* bulk delete is ever started on one.
C20_ListingFailureIsFatal ==
  ListingFails => pc \in {"start", "rejected"}

\* C21 (as claimed): a malformed policy, such as a negative keepLatest,
\* makes bulkDeleteDeployments fail before any delete call is issued: the
\* call issues no delete and returns no result, it is not run as some other
\* policy.
C21_MalformedPolicyRejected ==
  (kind = "pages" /\ options.keepLatest < 0) =>
    /\ deleteLog = <<>>
    /\ pc # "loop"
    /\ ~Returned

\* C22 (as claimed): every outcome of a run is reported to the progress
\* tracker, items skipped by policy included: when a non-dry run has
\* returned, the tracker has received one event per input item.
C22_TrackerSeesEveryInputItem ==
  (Returned /\ ~options.dryRun) =>
    progress.current = Len(deployments)

\* C23: the tracker's error list holds exactly one entry per failed item,
\* carrying that item's id and its error message, and no entry for an item
\* that was deleted; every attempted item is either deleted or listed; after
\* a non-dry run the number of entries is the failed count of the result.
C23_ErrorListIsTheFailedItems ==
  LET errors == progress.errors
      listed == { errors[i].item : i \in DOMAIN errors }
      attempted == { deploymentsToDelete[i].id :
                       i \in 1..(progress.current) }
  IN  /\ Cardinality(listed) = Len(errors)
      /\ listed \cap removed = {}
      /\ listed \cup removed = attempted
      /\ \A i \in DOMAIN errors : errors[i].error # ""
      /\ \A i, j \in DOMAIN errors :
           i < j => \E m, n \in DOMAIN deploymentsToDelete :
                      /\ m < n
                      /\ deploymentsToDelete[m].id = errors[i].item
                      /\ deploymentsToDelete[n].id = errors[j].item
      /\ (Returned /\ ~options.dryRun /\ Len(deploymentsToDelete) > 0) =>
           /\ result.failed = Len(errors)
           /\ result.success = Cardinality(removed)
           /\ attempted = { deploymentsToDelete[i].id :
                              i \in DOMAIN deploymentsToDelete }

\* C23 witness: a run over three items has returned; the second item failed
\* and is the only one listed, the other two were deleted.
C23_Witness ==
  /\ Returned
  /\ ~options.dryRun
  /\ Len(deploymentsToDelete) = 3
  /\ Len(progress.errors) = 1
  /\ progress.errors[1].item = deploymentsToDelete[2].id
  /\ removed = { deploymentsToDelete[1].id, deploymentsToDelete[3].id }
  /\ result.failed = 1

\* C24: ServiceManager.listAllResources never rejects because one listing
\* failed: it always resolves; the side whose listing failed is [] and the
\* other side holds every resource that was listed, mapped to type, name, id.
C24_ListAllResourcesTolerant ==
  op.name = "listAllResources" =>
    /\ spc # "rejected"
    /\ spc = "resolved" =>
         /\ Len(ret.pages) =
              (IF op.answers["pages/projects"] = "ok"
               THEN Len(op.projects) ELSE 0)
         /\ Len(ret.workers) =
              (IF op.answers["workers/scripts"] = "ok"
               THEN Len(op.scripts) ELSE 0)
         /\ \A i \in DOMAIN ret.pages :
              /\ ret.pages[i].type = "pages"
              /\ ret.pages[i].name = op.projects[i].name
         /\ \A i \in DOMAIN ret.workers :
              /\ ret.workers[i].type = "workers"
              /\ ret.workers[i].name = op.scripts[i].id

\* C24 witness: listing the Pages projects failed, and the call resolved
\* with pages = [] and both Workers scripts.
C24_Witness ==
  /\ op.name = "listAllResources"
  /\ spc = "resolved"
  /\ op.answers["pages/projects"] = "throws"
  /\ Len(op.projects) = 2
  /\ ret.pages = <<>>
  /\ Len(ret.workers) = 2

\* C25: validateConnection issues the account-specific check first and the
\* general check only after the first did not succeed; it never rejects; it
\* resolves with valid = true and the method that succeeded, and with
\* valid = false exactly when both checks failed.
C25_ValidateConnectionFallsBack ==
  op.name = "validateConnection" =>
    LET account == op.answers["accounts/tokens/verify"]
        general == op.answers["user/tokens/verify"]
    IN  /\ spc # "rejected"
        /\ transport \in {<<>>, <<"accounts/tokens/verify">>,
                          <<"accounts/tokens/verify", "user/tokens/verify">>}
        /\ Len(transport) = 2 => account # "ok"
        /\ spc = "resolved" =>
             /\ ret.valid <=> (account = "ok" \/ general = "ok")
             /\ account = "ok" =>
                  (ret.method = "account-specific" /\ Len(transport) = 1)
             /\ (account # "ok" /\ general = "ok") =>
                  (ret.method = "general" /\ Len(transport) = 2)
             /\ ~ret.valid => Len(transport) = 2

\* C25 witness: the account-specific check answered success: false, the
\* general check succeeded, and the call resolved valid by the general method.
C25_Witness ==
  /\ op.name = "validateConnection"
  /\ spc = "resolved"
  /\ op.answers["accounts/tokens/verify"] = "unsuccessful"
  /\ ret = [valid |-> TRUE, method |-> "general"]
  /\ Len(transport) = 2

C27_DryRunDeletesNoResource ==
  (op.name = "deleteResource" /\ op.dryRun) =>
    /\ transport = <<>>
    /\ waiting = {}
    /\ spc \in {"start", "client", "resolved", "rejected"}
    /\ Supported(op.resourceType) => spc # "rejected"
    /\ spc = "resolved" => (ret.success /\ ret.dryRun)

\* C27 witness: deleteScript has returned from a dry run.
C27_Witness ==
  /\ op.name = "deleteResource" /\ op.dryRun
  /\ invoked = <<"workersClient.deleteScript">>
  /\ spc = "resolved"
  /\ ret.dryRun

IdsOf(list) == { list[i].id : i \in DOMAIN list }

\* The n - K oldest deployments of the resource (none when n <= K)
OldestBeyond(all, K) == SliceFrom(SortNewestFirst(all), K)

\* C29: cleanupByCount with keepCount = K selects for deletion exactly the
\* n - K oldest deployments of a resource with n > K deployments, attempts
\* the deletion of all of them when dryRun is false, and attempts none when
\* n <= K.
C29_CountKeepsExactlyK ==
  (op.name = "cleanupByCount" /\ pc = "done") =>
    LET oldest == IdsOf(OldestBeyond(remote, op.keepCount))
    IN  /\ Len(remote) > op.keepCount => IdsOf(deploymentsToDelete) = oldest
        /\ ~op.dryRun => IdsOf(deleteLog) = oldest

\* C30: across the whole ServiceManager, its Pages client and its Workers
\* client together, the number of requests in flight to the API never
\* exceeds RateLimitConcurrent.
C30_ManagerWideConcurrencyBound ==
  Cardinality({ c \in PagesCallers : phase[c] = "transport" })
    + Cardinality({ c \in WorkersCallers : phase[c] = "transport" })
      <= RateLimitConcurrent

\* The deletes of a call go one at a time through the delete set: the
\* deletes started so far are the completed ones plus the one in flight, and
\* they are a prefix of the delete set in its order.
OneAtATimeInOrder ==
  /\ Len(PrimaryIds) = successCount + failedCount + InFlightDeletes
  /\ PrimaryIds = Ids(SubSeq(deploymentsToDelete, 1, Len(PrimaryIds)))
  /\ call # NoCall =>
       /\ idx = Len(PrimaryIds)
       /\ call.id = deploymentsToDelete[idx].id

C35_DeleteOnlyAfterExistenceCheck ==
  (op.name = "deleteResource" /\ ~op.dryRun) =>
    LET check == op.answers["GET resource"]
    IN  /\ transport \in {<<>>, <<"GET resource">>,
                          <<"GET resource", "DELETE resource">>}
        /\ Len(transport) = 2 => check = "ok"
        /\ "DELETE resource" \in waiting => "GET resource" \notin waiting
        /\ (check # "ok" /\ spc \in {"resolved", "rejected"}
              /\ Supported(op.resourceType)) =>
             /\ spc = "rejected"
             /\ transport = <<"GET resource">>
             /\ ret = [error |-> "Failed to fetch resource"]

\* C35 witness: deleteProject was rejected by a failed existence check
\* without a DELETE.
C35_Witness ==
  /\ op.name = "deleteResource" /\ ~op.dryRun
  /\ invoked = <<"pagesClient.deleteProject">>
  /\ op.answers["GET resource"] = "throws"
  /\ spc = "rejected"
  /\ transport = <<"GET resource">>

\* The pages 1 .. n of the remote listing, concatenated in page order
RECURSIVE PagesUpTo(_, _)
PagesUpTo(o, n) ==
  IF n = 0 THEN <<>> ELSE PagesUpTo(o, n - 1) \o RemotePage(o, n)

\* The requests of listAllDeployments so far are pages 1, 2, ... in order,
\* at most PageLimit of them, each one after a full page; the value
\* returned is the concatenation of the pages fetched, and the last of them
\* is short or is page PageLimit.
PagingStopsInOrder ==
  LET requested == Len(transport)
  IN  /\ \A i \in 1..requested :
           transport[i] = [request |-> "listDeployments", page |-> i]
      /\ requested <= PageLimit
      /\ \A i \in 1..(requested - 1) : Len(RemotePage(op, i)) = PerPage
      /\ spc = "resolved" =>
           /\ ret.deployments = PagesUpTo(op, requested)
           /\ \/ Len(RemotePage(op, requested)) < PerPage
              \/ requested = PageLimit

\* C33: WorkersClient.listAllDeployments always terminates: it requests
\* pages 1, 2, ... in order, stops after the first page holding fewer than
\* PerPage items, and requests at most PageLimit pages even when the remote
\* service keeps returning full pages; the result is the concatenation of
\* the fetched pages in page order.
C33_PagingTerminates ==
  /\ []PagingStopsInOrder
  /\ <>(spc \in {"resolved", "rejected"})

\* C33 witness: the remote held more full pages than the limit and the call
\* returned the first PageLimit pages.
C33_Witness ==
  /\ op.name = "workersClient.listAllDeployments"
  /\ op.fullPages > PageLimit
  /\ spc = "resolved"
  /\ Len(transport) = PageLimit
  /\ Len(ret.deployments) = PageLimit * PerPage

\* Sum of f over the entries of a list
RECURSIVE SumOver(_, _)
SumOver(list, field) ==
  IF list = <<>> THEN 0
  ELSE list[1][field] + SumOver(Tail(list), field)

\* The entries of a list that carry an error: the resources whose
\* processing threw
Thrown(list) == { i \in DOMAIN list : "error" \in DOMAIN list[i] }

\* C34: ServiceManager.bulkDeleteMultipleResources processes every resource
\* of a non-empty input in order even when listing or deleting fails for
\* some of them: the summary holds exactly one result entry per input
\* resource, totalDeleted is the sum of the success counts, totalErrors is
\* the sum of the failed counts of the bulk deletes plus one per resource
\* whose processing threw, and with dryRun = true totalDeleted is 0.
C34_EveryResourceProcessed ==
  (op.name = "bulkDeleteMultipleResources" /\ Len(op.resources) > 0) =>
    /\ spc # "rejected"
    /\ spc = "resolved" =>
         LET results == ret.results
             n == Len(op.resources)
             listings == SelectSeq(invoked,
                           LAMBDA c : c.method = "listDeployments")
         IN  /\ Len(results) = n
             /\ \A i \in 1..n :
                  /\ results[i].resourceName = i
                  /\ results[i].resourceType = op.resources[i].type
                  /\ i \in Thrown(results) <=>
                       \/ op.resources[i].listing = "throws"
                       \/ /\ op.resources[i].listing = "some"
                          /\ op.resources[i].deletes = DeleteThrew
             /\ listings = [i \in 1..n |->
                              [method |-> "listDeployments", name |-> i]]
             /\ ret.totalResources = n
             /\ ret.totalDeleted = SumOver(results, "success")
             /\ ret.totalErrors =
                  SumOver(SelectSeq(results,
                            LAMBDA r : "error" \notin DOMAIN r), "failed")
                    + Cardinality(Thrown(results))
             /\ op.dryRun => ret.totalDeleted = 0

\* C34 witness: of two resources the first threw and the second was
\* processed after it, with one delete done and one failed.
C34_Witness ==
  /\ op.name = "bulkDeleteMultipleResources"
  /\ spc = "resolved"
  /\ Len(ret.results) = 2
  /\ Thrown(ret.results) = {1}
  /\ ret.totalDeleted = 1
  /\ ret.totalErrors = 2

\* C36: in the CLI delete command run without --yes and without --dry-run
\* no delete call is issued before the user has answered the confirmation
\* prompt; if the user declines, the command ends having issued no delete
\* call at all.
C36_NoDeleteBeforeConfirmation ==
  (op.name = "cli delete" /\ ~op.yes /\ ~op.dryRun) =>
    /\ spc \in {"start", "prompt"} =>
         (deleteLog = <<>> /\ call = NoCall /\ pc \in {"start", "prompt"})
    /\ ~op.confirm =>
         /\ deleteLog = <<>>
         /\ call = NoCall
         /\ removed = {}
         /\ pc \in {"start", "prompt", "returned"}
    /\ deleteLog # <<>> => (op.confirm /\ spc = "deleting")

\* C36 witness: the user declined at the prompt over a non-empty list and
\* the command has ended without a delete.
C36_Witness ==
  /\ op.name = "cli delete" /\ ~op.yes /\ ~op.dryRun /\ ~op.confirm
  /\ spc = "cancelled"
  /\ Len(deployments) = 3
  /\ deleteLog = <<>>

\* The batches of the queues that are marked as processing
Processing ==
  { id \in BatchIds :
      \E q \in DOMAIN queues : \E k \in DOMAIN queues[q].batches :
        /\ queues[q].batches[k].id = id
        /\ queues[q].batches[k].processing }

\* C37: in processAllQueues at most maxConcurrency batches are being
\* processed at any instant, and no batch is processed by two workers at
\* the same time: getNextBatch never hands out a batch that is marked
\* processing, and the batches being processed are the ones so marked.
C37_BoundedWorkersNoSharedBatch ==
  /\ Cardinality(activeWorkers) <= settings.maxConcurrency
  /\ \A v, w \in activeWorkers : v.batchId = w.batchId => v = w
  /\ { w.batchId : w \in activeWorkers } = Processing
  /\ GetNextBatch.queue # 0 =>
       ~queues[GetNextBatch.queue].batches[GetNextBatch.position].processing

\* C37 witness: maxConcurrency = 2 batches are being processed while a
\* third one waits in its queue.
C37_Witness ==
  /\ settings.maxConcurrency = 2
  /\ Cardinality(activeWorkers) = 2
  /\ main = "race"
  /\ GetNextBatch.queue # 0

\* Events of a batch
FailedWillRetry(id, attempt) ==
  [event |-> "batch-failed", batchId |-> id, attempt |-> attempt,
   willRetry |-> TRUE] \in emitted
StartedAttempt(id, attempt) ==
  [event |-> "batch-started", batchId |-> id, attempt |-> attempt]
    \in emitted

\* No batch is attempted more than MaxAttempts times, and a batch is given
\* up (batch-failed with willRetry = false) only at attempt MaxAttempts.
AttemptsBounded ==
  /\ \A e \in emitted : e.attempt \in 1..MaxAttempts
  /\ \A e \in emitted :
       e.event = "batch-failed" => (e.willRetry <=> e.attempt < MaxAttempts)
  /\ counters.failedItems =
       ItemsPerBatch * Cardinality({ e \in emitted :
                         e.event = "batch-failed" /\ e.attempt = MaxAttempts })

\* C38 (as claimed): a batch whose processing fails after fewer than
\* MaxAttempts attempts (batch-failed with willRetry = true) is eventually
\* processed again and the other batches keep being processed; a batch is
\* given up and its items counted as failed only after MaxAttempts
\* attempts, and no batch is attempted more than MaxAttempts times.
C38_FailedBatchIsRetried ==
  /\ \A id \in BatchIds : \A attempt \in 1..(MaxAttempts - 1) :
       FailedWillRetry(id, attempt) ~> StartedAttempt(id, attempt + 1)
  /\ []AttemptsBounded

====
